---- MODULE Spec2Model ----
(***************************************************************************)
(* Verification model of the falgates staff check-in system:               *)
(*   - the consensus decision engine (services/geminiService.ts),          *)
(*   - the quality gate (checkImageQuality),                               *)
(*   - the kiosk verification orchestrator, in its pairwise version        *)
(*     (unnamed/part_005) and its indexed-search version (pages/Kiosk.tsx),*)
(*   - the multi-angle enrollment capture session (unnamed/part_004).      *)
(* Each component has its own specification over the shared variables; a   *)
(* component's variables stay at their initial value under the other       *)
(* components' specifications.                                             *)
(***************************************************************************)
EXTENDS Integers, Sequences, FiniteSets, TLC

VARIABLES
    cons,               \* one call of verifyIdentityWithConsensus: arguments, loop state, return value
    mode,               \* Kiosk: 'IDLE' | 'SCANNING' | 'SUCCESS' | 'FAILURE'
    result,             \* Kiosk: RecognitionResult | null
    staffList,          \* Kiosk: the staff loaded by loadStaff (with their reference images)
    loadingStaff,       \* Kiosk: loadingStaff flag
    kiosk,              \* Kiosk: which version of the page runs, and faceppAvailable
    scans,              \* Kiosk: the calls of handleLiveCapture in flight (past the guard, not finished)
    stats,              \* Kiosk: how many captures passed the guard, how many resolutions set SUCCESS
    timers,             \* Kiosk: pending setTimeout callbacks, per delay
    checkIns,           \* store: the check_ins table
    formData,           \* Enrollment: fullName, id, unit
    currentAngleIndex,  \* Enrollment: index into PHOTO_ANGLES
    capturedPhotos,     \* Enrollment: CapturedPhoto[]
    isChecking,         \* Enrollment
    isSaving,           \* Enrollment
    checks,             \* Enrollment: calls of handleCapture awaiting checkImageQuality
    advTimers,          \* Enrollment: pending auto-advance timeouts, per target index
    save,               \* Enrollment: the call of handleSave in flight and its closure
    staffTable,         \* store: ids of the rows of the staff table
    staffImages,        \* store: the rows of staff_images, per insert
    gateLog,            \* quality gate: the calls of checkImageQuality made, with what each returned
    idTable,            \* id allocation: the ids of the rows of the staff table, as character sequences
    everAssigned,       \* id allocation: every id a staff row was ever stored under
    issued,             \* id allocation: the calls of getNextId made, with what each returned
    storedKey,          \* settings: the GEMINI_API_KEY row of the settings table
    cachedApiKey,       \* geminiService: the module variable cachedApiKey
    clients,            \* geminiService: the calls of getClient in flight
    cfg,                \* ApiConfig: the handler (handleSave / handleClear) in flight
    uses,               \* geminiService: the calls of getClient that returned, with the key each used
    recent,             \* store: the calls of getRecentCheckIns made, with what each returned
    sessions,           \* Enrollment sessions open at once: the position of each and the id it fetched
    sessionStore,       \* store: the rows of staff and of staff_images, as the sessions insert them
    single,             \* Enrollment (single photo): capturedImage, qualityCheck, isChecking, isSaving, handleSave in flight
    singleChecks,       \* Enrollment (single photo): the calls of checkImageQuality, per photo
    singleStaff,        \* store: the staff rows the single-photo page inserted
    shots,              \* Enrollment (multi-angle): the captures of one angle, told apart: submitted, in flight, stored
    faceppSettings,     \* store: the settings FACEPP_API_KEY, FACEPP_API_SECRET, FACEPP_FACESET_TOKEN
    cachedCredentials,  \* faceplusplus: the module-level credentials cache
    faceppCalls,        \* faceplusplus: the calls of hasFaceSet and createFaceSet, each with its getCredentials
    faceppSave,         \* ApiConfig: handleSaveFacepp in flight
    everStored          \* history: the combinations of the three settings the store has held

consVars == <<cons>>
kioskVars == <<mode, result, staffList, loadingStaff, kiosk, scans, stats, timers, checkIns>>
enrollVars == <<formData, currentAngleIndex, capturedPhotos, isChecking, isSaving, checks,
                advTimers, save, staffTable, staffImages>>
gateVars == <<gateLog>>
idVars == <<idTable, everAssigned, issued>>
cfgVars == <<storedKey, cachedApiKey, clients, cfg, uses>>
readVars == <<recent>>
sessionVars == <<sessions, sessionStore>>
singleVars == <<single, singleChecks, singleStaff>>
shotVars == <<shots>>
faceppVars == <<faceppSettings, cachedCredentials, faceppCalls, faceppSave, everStored>>
vars == <<cons, mode, result, staffList, loadingStaff, kiosk, scans, stats, timers, checkIns,
          formData, currentAngleIndex, capturedPhotos, isChecking, isSaving, checks,
          advTimers, save, staffTable, staffImages, gateLog,
          idTable, everAssigned, issued, storedKey, cachedApiKey, clients, cfg, uses, recent,
          sessions, sessionStore,
          single, singleChecks, singleStaff,
          shots,
          faceppSettings, cachedCredentials, faceppCalls, faceppSave, everStored>>
nonKiosk ==
    <<consVars, enrollVars, gateVars, idVars, cfgVars, readVars, sessionVars, singleVars, shotVars, faceppVars>>
nonCons ==
    <<kioskVars, enrollVars, gateVars, idVars, cfgVars, readVars, sessionVars, singleVars, shotVars, faceppVars>>
nonEnroll ==
    <<consVars, kioskVars, gateVars, idVars, cfgVars, readVars, sessionVars, singleVars, shotVars, faceppVars>>
nonGate ==
    <<consVars, kioskVars, enrollVars, idVars, cfgVars, readVars, sessionVars, singleVars, shotVars, faceppVars>>
nonIds ==
    <<consVars, kioskVars, enrollVars, gateVars, cfgVars, readVars, sessionVars, singleVars, shotVars, faceppVars>>
nonCfg ==
    <<consVars, kioskVars, enrollVars, gateVars, idVars, readVars, sessionVars, singleVars, shotVars, faceppVars>>
nonRead ==
    <<consVars, kioskVars, enrollVars, gateVars, idVars, cfgVars, sessionVars, singleVars, shotVars, faceppVars>>
nonSessions ==
    <<consVars, kioskVars, enrollVars, gateVars, idVars, cfgVars, readVars, singleVars, shotVars, faceppVars>>
nonSingle ==
    <<consVars, kioskVars, enrollVars, gateVars, idVars, cfgVars, readVars, sessionVars, shotVars, faceppVars>>
nonShots ==
    <<consVars, kioskVars, enrollVars, gateVars, idVars, cfgVars, readVars, sessionVars, singleVars, faceppVars>>
nonFacepp ==
    <<consVars, kioskVars, enrollVars, gateVars, idVars, cfgVars, readVars, sessionVars, singleVars, shotVars>>

(***************************************************************************)
(* Bounds of the model.                                                    *)
(***************************************************************************)
\* Reference images passed to one call of verifyIdentityWithConsensus.
MaxRefs == 3
\* Captures that pass the kiosk's guard in one behaviour.
MaxScans == 2
\* Staff records loaded by the kiosk.
MaxStaff == 2
\* Quality checks and auto-advance timers pending at the same time.
MaxPending == 2
\* Calls of the quality gate in one behaviour of SpecGate.
MaxGateCalls == 3
\* Rows of the staff table when the application starts.
MaxSeed == 2
\* Calls of getNextId in one behaviour.
MaxIssued == 2
\* Calls of getClient in one behaviour.
MaxClientCalls == 2
\* Configuration changes (saves and clears) in one behaviour.
MaxChanges == 1
\* Check-in events stored in one behaviour of SpecCheckIns.
MaxEvents == 3
\* Calls of getRecentCheckIns in one behaviour of SpecCheckIns.
MaxReads == 1
\* Enrollment sessions open at the same time.
MaxSessions == 2
\* Photos captured in one session of the single-photo enrollment page.
MaxCaptures == 3
\* Photos of one angle captured in one session of the multi-angle page.
MaxShots == 4
\* Calls of hasFaceSet and createFaceSet made while the Face++ settings change.
MaxFaceppCalls == 3
\* Submissions of the Face++ credentials form.
MaxFaceppSaves == 1

(***************************************************************************)
(* Program constants.                                                      *)
(***************************************************************************)
DefaultRequiredMatches == 2
DefaultConfidenceThreshold == 85
KioskConfidenceThreshold == 85
NumAngles == 3
FallbackSearchThreshold == 65

(***************************************************************************)
(* Numbers.  A mean of confidences is not an integer in general, so a      *)
(* confidence that results from a division is kept as the exact fraction   *)
(* num / den (den > 0).                                                    *)
(***************************************************************************)
Frac(n, d) == [num |-> n, den |-> d]
FracOfInt(n) == Frac(n, 1)
FracEq(f, g) == f.num * g.den = g.num * f.den

RECURSIVE SumConfidence(_)
\* results.reduce((sum, r) => sum + r.confidence, 0)
SumConfidence(rs) ==
    IF rs = <<>> THEN 0 ELSE Head(rs).confidence + SumConfidence(Tail(rs))

(***************************************************************************)
(* The pairwise oracle.  One call of verifyIdentityWithGemini ends in one  *)
(* of: the oracle answered with a parsable verdict; the response text did  *)
(* not parse; generateContent threw (network, auth); getClient threw (no   *)
(* credential).                                                            *)
(***************************************************************************)
AnswerConfidences == {60, 85, 88, 90}

Answer(m, c) == [kind |-> "answer", match |-> m, confidence |-> c]
FailedCall(k) == [kind |-> k, match |-> FALSE, confidence |-> 0]

FailureKinds == {"parseError", "networkError", "noCredential"}

OracleOutcomes ==
    {Answer(m, c) : m \in BOOLEAN, c \in AnswerConfidences}
        \cup {FailedCall(k) : k \in FailureKinds}

\* A result that counts toward a match although the oracle did not answer.
VerifyIdentityWithGeminiFailOpen(outcome) ==
    IF outcome.kind = "answer"
    THEN [match |-> outcome.match, confidence |-> outcome.confidence,
          explanation |-> "oracle explanation"]
    ELSE [match |-> TRUE, confidence |-> 100,
          explanation |-> "AI Service Unavailable"]

VerifyIdentityWithGemini(outcome) ==
    IF outcome.kind = "answer"
    THEN [match |-> outcome.match, confidence |-> outcome.confidence,
          explanation |-> "oracle explanation"]
    ELSE IF outcome.kind = "parseError"
    THEN [match |-> FALSE, confidence |-> 0,
          explanation |-> "Verification Failed (Parse Error)"]
    ELSE [match |-> FALSE, confidence |-> 0,
          explanation |-> "AI Service Unavailable"]

(***************************************************************************)
(* verifyIdentityWithConsensus, after its loop has filled `results`.       *)
(***************************************************************************)
\* A count of every result with match = true, whatever its confidence.
QualifiesAnyConfidence(r, confidenceThreshold) == r.match

\* r => r.match && r.confidence >= confidenceThreshold
Qualifies(r, confidenceThreshold) ==
    r.match /\ r.confidence >= confidenceThreshold

ValidMatches(results, confidenceThreshold) ==
    SelectSeq(results, LAMBDA r : Qualifies(r, confidenceThreshold))

\* The mean over all results, whether or not some qualify.
AvgConfidenceOverAll(results, confidenceThreshold) ==
    Frac(SumConfidence(results), Len(results))

\* The sum of the confidences in place of their mean.
AvgConfidenceUndivided(results, confidenceThreshold) ==
    LET validMatches == ValidMatches(results, confidenceThreshold)
    IN  IF Len(validMatches) > 0
        THEN Frac(SumConfidence(validMatches), 1)
        ELSE Frac(SumConfidence(results), 1)

AvgConfidence(results, confidenceThreshold) ==
    LET validMatches == ValidMatches(results, confidenceThreshold)
    IN  IF Len(validMatches) > 0
        THEN Frac(SumConfidence(validMatches), Len(validMatches))
        ELSE Frac(SumConfidence(results), Len(results))

\* avgConfidence.toFixed(0)
ToFixed0(f) == (2 * f.num + f.den) \div (2 * f.den)

\* The explanation text: its template, the numbers it embeds (in order) and the
\* oracle explanation it quotes.
ConsensusExplanation(results, nRefs, requiredMatches, matchCount, avgConfidence, isMatch) ==
    IF isMatch
    THEN [text |-> "Verified with m/n image matches (avg c% confidence)",
          numbers |-> <<matchCount, nRefs, ToFixed0(avgConfidence)>>,
          detail |-> ""]
    ELSE IF matchCount > 0
    THEN [text |-> "Only m/n matches (need r). e",
          numbers |-> <<matchCount, nRefs, requiredMatches>>,
          detail |-> results[1].explanation]
    ELSE [text |-> "No matches found. e",
          numbers |-> <<>>,
          detail |-> results[1].explanation]

NoReferenceResult ==
    [match |-> FALSE, confidence |-> FracOfInt(0),
     explanation |-> [text |-> "No reference images available",
                      numbers |-> <<>>, detail |-> ""],
     matchCount |-> 0]

\* A consensus decided by the answers match = true alone, whatever their confidence.
ConsensusOfVotes(results, requiredMatches, confidenceThreshold) ==
    LET matchCount == Len(ValidMatches(results, confidenceThreshold))
        avgConfidence == AvgConfidence(results, confidenceThreshold)
        isMatch == Len(SelectSeq(results, LAMBDA r : r.match)) >= requiredMatches
    IN  [match |-> isMatch,
         confidence |-> avgConfidence,
         explanation |-> ConsensusExplanation(results, Len(results), requiredMatches,
                                              matchCount, avgConfidence, isMatch),
         matchCount |-> matchCount]

ConsensusOf(results, requiredMatches, confidenceThreshold) ==
    LET matchCount == Len(ValidMatches(results, confidenceThreshold))
        avgConfidence == AvgConfidence(results, confidenceThreshold)
        isMatch == matchCount >= requiredMatches
    IN  [match |-> isMatch,
         confidence |-> avgConfidence,
         explanation |-> ConsensusExplanation(results, Len(results), requiredMatches,
                                              matchCount, avgConfidence, isMatch),
         matchCount |-> matchCount]

\* The parameter defaults of the signature: requiredMatches = 2,
\* confidenceThreshold = 85 when the caller passes none.
EffectiveRequiredMatches(reqGiven, req) ==
    IF reqGiven THEN req ELSE DefaultRequiredMatches

EffectiveThreshold(thrGiven, thr) ==
    IF thrGiven THEN thr ELSE DefaultConfidenceThreshold

VerifyIdentityWithConsensus(results, requiredMatches, confidenceThreshold) ==
    IF Len(results) = 0
    THEN NoReferenceResult
    ELSE ConsensusOf(results, requiredMatches, confidenceThreshold)

(***************************************************************************)
(* Specification of one call of verifyIdentityWithConsensus: the arguments *)
(* are drawn in the initial state, each step of the loop awaits one oracle  *)
(* comparison, and the call returns when every reference was compared.     *)
(***************************************************************************)
Thresholds == {DefaultConfidenceThreshold, 88}

\* The policy with no single-image exception.
RequiredMatchesAlwaysTwo(nRefs) == 2

\* const requiredMatches = referenceImages.length >= 3 ? 2 : 1
RequiredMatchesFor(nRefs) == IF nRefs >= 3 THEN 2 ELSE 1

\* The arguments of a call.  caller tells the call site: the pairwise kiosk
\* (handleLiveCapture), which passes requiredMatches and confidenceThreshold,
\* or any other caller, which may pass or omit each of them.
ConsArgs ==
    [caller : {"kiosk", "other"}, nRefs : 0..MaxRefs, reqGiven : BOOLEAN, req : 1..MaxRefs,
     thrGiven : BOOLEAN, thr : Thresholds]

\* verifyIdentityWithConsensus(img, referenceImages, requiredMatches, confidenceThreshold)
\* as the kiosk calls it: referenceImages is never empty there.
KioskCall(a) ==
    /\ a.nRefs >= 1
    /\ a.reqGiven /\ a.req = RequiredMatchesFor(a.nRefs)
    /\ a.thrGiven /\ a.thr = KioskConfidenceThreshold

\* No stored photo of the angle: capturedPhotos.find(...) is undefined.
NoShot == [image |-> 0, isValid |-> FALSE]

\* useState<{ valid: boolean; reason: string } | null>(null)
NoQualityCheck == [isNull |-> TRUE, valid |-> FALSE]

\* The single-photo enrollment page as it mounts: no photo, no quality check,
\* no handleSave in flight.
SingleMounted ==
    [capturedImage |-> 0, qualityCheck |-> NoQualityCheck,
     isChecking |-> FALSE, isSaving |-> FALSE, pc |-> "idle", newStaff |-> 0]

\* let cachedCredentials: FacePPCredentials | null = null; 0 stands for a
\* setting that is absent (getSetting returns null, facesetToken undefined).
NoCredentials == [isNull |-> TRUE, apiKey |-> 0, apiSecret |-> 0, facesetToken |-> 0]

\* The settings FACEPP_API_KEY, FACEPP_API_SECRET and FACEPP_FACESET_TOKEN when
\* none of them was saved.
NoFaceppSettings == [apiKey |-> 0, apiSecret |-> 0, facesetToken |-> 0]

\* ApiConfig with no handleSaveFacepp in flight.
FaceppSaveIdle == [pc |-> "idle", key |-> 0, secret |-> 0, saves |-> 0]

ConsIdleValue ==
    [args |-> [caller |-> "other", nRefs |-> 0, reqGiven |-> FALSE, req |-> 1,
               thrGiven |-> FALSE, thr |-> DefaultConfidenceThreshold],
     results |-> <<>>, pc |-> "idle", ret |-> NoReferenceResult]

Msg(text) == [text |-> text, numbers |-> <<>>, detail |-> ""]

\* useState<RecognitionResult | null>(null)
NullResult ==
    [isNull |-> TRUE, isMatch |-> FALSE, confidence |-> FracOfInt(0),
     staffMember |-> 0, message |-> Msg("")]

(***************************************************************************)
(* The state of each page before it is mounted.                            *)
(***************************************************************************)
PhotoAngles == <<"front", "left", "right">>

\* A staff name as the characters typed.
NoName == <<>>

KioskIdle ==
    /\ mode = "IDLE"
    /\ result = NullResult
    /\ staffList = <<>>
    /\ loadingStaff = TRUE
    /\ kiosk = [version |-> "none", faceppAvailable |-> FALSE]
    /\ scans = <<>>
    /\ stats = [started |-> 0, successes |-> 0]
    /\ timers = [t3 |-> 0, t5 |-> 0]
    /\ checkIns = <<>>

EnrollIdle ==
    /\ formData = [fullName |-> NoName, id |-> "Generating...", unit |-> "PLATFORM_A"]
    /\ currentAngleIndex = 0
    /\ capturedPhotos = <<>>
    /\ isChecking = FALSE
    /\ isSaving = FALSE
    /\ checks = [i \in 0..(Len(PhotoAngles) - 1) |-> 0]
    /\ advTimers = [i \in 1..(Len(PhotoAngles) - 1) |-> 0]
    /\ save = [pc |-> "idle", photos |-> <<>>, id |-> "", name |-> NoName, alert |-> ""]
    /\ staffTable = {}
    /\ staffImages = <<>>

\* No key: null in cachedApiKey, no row in the settings table.
NoKey == "null"

IdsIdle ==
    /\ idTable = {}
    /\ everAssigned = {}
    /\ issued = <<>>

ConfigIdle ==
    /\ storedKey = NoKey
    /\ cachedApiKey = NoKey
    /\ clients = <<>>
    /\ cfg = [pc |-> "idle", key |-> NoKey, changes |-> 0]
    /\ uses = <<>>

ConsInit ==
    /\ \E a \in ConsArgs :
        /\ (a.caller = "kiosk" => KioskCall(a))
        /\ (~a.reqGiven => a.req = 1)
        /\ (~a.thrGiven => a.thr = DefaultConfidenceThreshold)
        /\ cons = [args |-> a, results |-> <<>>, pc |-> "loop", ret |-> NoReferenceResult]
    /\ KioskIdle
    /\ EnrollIdle
    /\ gateLog = <<>>
    /\ recent = <<>>
    /\ faceppSettings = NoFaceppSettings
    /\ cachedCredentials = NoCredentials
    /\ faceppCalls = <<>>
    /\ faceppSave = FaceppSaveIdle
    /\ everStored = {}
    /\ shots = [taken |-> 0, inFlight |-> {}, stored |-> NoShot]
    /\ single = SingleMounted
    /\ singleChecks = <<>>
    /\ singleStaff = <<>>
    /\ sessions = <<>>
    /\ sessionStore = [staff |-> <<>>, images |-> <<>>]
    /\ IdsIdle
    /\ ConfigIdle

\* for (const refImage of referenceImages) { result = await verifyIdentityWithGemini(...); results.push(result) }
ConsCompare ==
    /\ cons.pc = "loop"
    /\ Len(cons.results) < cons.args.nRefs
    /\ \E o \in OracleOutcomes :
          cons' = [cons EXCEPT !.results = Append(@, VerifyIdentityWithGemini(o))]
    /\ UNCHANGED nonCons

ConsReturn ==
    /\ cons.pc = "loop"
    /\ Len(cons.results) = cons.args.nRefs
    /\ cons' = [cons EXCEPT
                  !.pc = "returned",
                  !.ret = VerifyIdentityWithConsensus(
                              cons.results,
                              EffectiveRequiredMatches(cons.args.reqGiven, cons.args.req),
                              EffectiveThreshold(cons.args.thrGiven, cons.args.thr))]
    /\ UNCHANGED nonCons

ConsNext == ConsCompare \/ ConsReturn

SpecConsensus == ConsInit /\ [][ConsNext]_vars

(***************************************************************************)
(* The kiosk.  Two versions of the page exist in the repository: the       *)
(* pairwise one (unnamed/part_005), which runs verifyIdentityWithConsensus *)
(* over the staff list, and the indexed one (pages/Kiosk.tsx), which calls *)
(* searchFace.                                                             *)
(***************************************************************************)
Versions == {"pairwise", "indexed"}

\* Rows of the staff table with their staff_images rows: a staff enrolled by the
\* multi-angle flow has one image per angle, a staff enrolled by the single-photo
\* flow has none.
ImageCounts == {0, NumAngles}

StaffRow(i, n) == [id |-> i, faceToken |-> i, nImages |-> n]

RECURSIVE StaffLists(_)
StaffLists(len) ==
    IF len = 0 THEN {<<>>}
    ELSE {Append(l, StaffRow(len, n)) : l \in StaffLists(len - 1), n \in ImageCounts}

\* staff.images.length > 0 ? staff.images.map(...) : [staff.referenceImageBase64]
ReferenceCount(staff) == IF staff.nImages > 0 THEN staff.nImages ELSE 1

\* The loop without its break: every candidate is evaluated.
NextCandidateNoBreak(isMatch, cand, nStaff) ==
    IF cand < nStaff THEN cand + 1 ELSE 0

\* for (const staff of staffList) { ...; if (verify.match) { foundMatch = ...; break; } }
\* The index of the candidate evaluated next, 0 when the loop ends.
NextCandidate(isMatch, cand, nStaff) ==
    IF isMatch THEN 0
    ELSE IF cand < nStaff THEN cand + 1 ELSE 0

\* The oracle outcomes the kiosk is run against.
KioskOutcomes ==
    {Answer(TRUE, 90), Answer(TRUE, 60), Answer(FALSE, 60), FailedCall("networkError")}

\* One call of handleLiveCapture in flight.  pc is the await it is suspended
\* at; cand, results, found and confidence are its locals.  The other fields
\* record what the scan did: the candidates an oracle comparison was issued
\* for, the number of comparisons of the current candidate the oracle answered
\* with match = true and confidence >= 85, and the first candidate whose
\* consensus was a match.
NewScan(pc, cand) ==
    [pc |-> pc, cand |-> cand, results |-> <<>>, found |-> 0,
     confidence |-> FracOfInt(0),
     calledCands |-> IF cand > 0 THEN {cand} ELSE {},
     candQualified |-> 0, firstMatch |-> 0]

\* The scans in flight once scan s has run its finally block.
Finished(s) == SubSeq(scans, 1, s - 1) \o SubSeq(scans, s + 1, Len(scans))

FailureResult(text) ==
    [isNull |-> FALSE, isMatch |-> FALSE, confidence |-> FracOfInt(0),
     staffMember |-> 0, message |-> Msg(text)]

MatchResult(conf, staffIdx, message) ==
    [isNull |-> FALSE, isMatch |-> TRUE, confidence |-> conf,
     staffMember |-> staffIdx, message |-> message]

KioskInit ==
    /\ mode = "IDLE"
    /\ result = NullResult
    /\ staffList = <<>>
    /\ loadingStaff = TRUE
    /\ kiosk \in [version : Versions, faceppAvailable : {FALSE}]
    /\ scans = <<>>
    /\ stats = [started |-> 0, successes |-> 0]
    /\ timers = [t3 |-> 0, t5 |-> 0]
    /\ checkIns = <<>>
    /\ cons = ConsIdleValue
    /\ EnrollIdle
    /\ gateLog = <<>>
    /\ recent = <<>>
    /\ faceppSettings = NoFaceppSettings
    /\ cachedCredentials = NoCredentials
    /\ faceppCalls = <<>>
    /\ faceppSave = FaceppSaveIdle
    /\ everStored = {}
    /\ shots = [taken |-> 0, inFlight |-> {}, stored |-> NoShot]
    /\ single = SingleMounted
    /\ singleChecks = <<>>
    /\ singleStaff = <<>>
    /\ sessions = <<>>
    /\ sessionStore = [staff |-> <<>>, images |-> <<>>]
    /\ IdsIdle
    /\ ConfigIdle

\* useEffect(() => { loadStaff() }, []): getAllStaff (and the images of each staff,
\* or hasFaceSet) answered.
LoadStaffOk ==
    /\ loadingStaff
    /\ \E len \in 0..MaxStaff : \E l \in StaffLists(len) : staffList' = l
    /\ \E has \in BOOLEAN :
          kiosk' = [kiosk EXCEPT !.faceppAvailable = (kiosk.version = "indexed" /\ has)]
    /\ loadingStaff' = FALSE
    /\ UNCHANGED <<mode, result, scans, stats, timers, checkIns, nonKiosk>>

\* loadStaff: the store threw; the catch logs, the list stays empty.
LoadStaffFail ==
    /\ loadingStaff
    /\ loadingStaff' = FALSE
    /\ UNCHANGED <<mode, result, staffList, kiosk, scans, stats, timers, checkIns, nonKiosk>>

\* if (mode === 'SCANNING') return;
GuardPasses == mode # "SCANNING"

\* An empty-list branch that falls through to the generic failure and the
\* finally block.
CaptureNoStaffGeneric ==
    /\ ~loadingStaff
    /\ stats.started < MaxScans
    /\ GuardPasses
    /\ Len(staffList) = 0
    /\ result' = FailureResult("Face not recognized. Please ensure you are registered.")
    /\ mode' = "FAILURE"
    /\ timers' = [timers EXCEPT !.t5 = @ + 1]
    /\ stats' = [stats EXCEPT !.started = @ + 1]
    /\ UNCHANGED <<staffList, loadingStaff, kiosk, scans, checkIns, nonKiosk>>

\* handleLiveCapture with an empty staff list: resolves at once, 3 s timer.
CaptureNoStaff ==
    /\ ~loadingStaff
    /\ stats.started < MaxScans
    /\ GuardPasses
    /\ Len(staffList) = 0
    /\ result' = FailureResult("No staff database found.")
    /\ mode' = "FAILURE"
    /\ timers' = [timers EXCEPT !.t3 = @ + 1]
    /\ stats' = [stats EXCEPT !.started = @ + 1]
    /\ UNCHANGED <<staffList, loadingStaff, kiosk, scans, checkIns, nonKiosk>>

\* handleLiveCapture, pairwise version: enters the loop and awaits the first
\* comparison of the first candidate.
CapturePairwise ==
    /\ ~loadingStaff
    /\ stats.started < MaxScans
    /\ GuardPasses
    /\ Len(staffList) > 0
    /\ kiosk.version = "pairwise"
    /\ mode' = "SCANNING"
    /\ scans' = Append(scans, NewScan("compare", 1))
    /\ stats' = [stats EXCEPT !.started = @ + 1]
    /\ UNCHANGED <<result, staffList, loadingStaff, kiosk, timers, checkIns, nonKiosk>>

\* handleLiveCapture, indexed version with Face++ available: awaits searchFace.
CaptureIndexed ==
    /\ ~loadingStaff
    /\ stats.started < MaxScans
    /\ GuardPasses
    /\ Len(staffList) > 0
    /\ kiosk.version = "indexed"
    /\ kiosk.faceppAvailable
    /\ mode' = "SCANNING"
    /\ scans' = Append(scans, NewScan("search", 0))
    /\ stats' = [stats EXCEPT !.started = @ + 1]
    /\ UNCHANGED <<result, staffList, loadingStaff, kiosk, timers, checkIns, nonKiosk>>

\* handleLiveCapture, indexed version without Face++: no oracle is called, the
\* else branch and the finally block run in the same turn.
CaptureNotConfigured ==
    /\ ~loadingStaff
    /\ stats.started < MaxScans
    /\ GuardPasses
    /\ Len(staffList) > 0
    /\ kiosk.version = "indexed"
    /\ ~kiosk.faceppAvailable
    /\ result' = FailureResult("Face++ not configured. Please set up API credentials in Settings.")
    /\ mode' = "FAILURE"
    /\ timers' = [timers EXCEPT !.t5 = @ + 1]
    /\ stats' = [stats EXCEPT !.started = @ + 1]
    /\ UNCHANGED <<staffList, loadingStaff, kiosk, scans, checkIns, nonKiosk>>

\* The tail of the try block once the loop (or the search) is over:
\* foundMatch set -> setResult, setMode('SUCCESS'), await logCheckIn;
\* otherwise setResult(failure), setMode('FAILURE'), and the finally block.
Resolve(s, sc, found, conf, message, failText) ==
    IF found # 0
    THEN /\ result' = MatchResult(conf, found, message)
         /\ mode' = "SUCCESS"
         /\ scans' = [scans EXCEPT ![s] =
                        [sc EXCEPT !.pc = "logCheckIn", !.found = found,
                                   !.confidence = conf, !.results = <<>>]]
         /\ stats' = [stats EXCEPT !.successes = @ + 1]
         /\ UNCHANGED timers
    ELSE /\ result' = FailureResult(failText)
         /\ mode' = "FAILURE"
         /\ scans' = Finished(s)
         /\ timers' = [timers EXCEPT !.t5 = @ + 1]
         /\ UNCHANGED stats

\* What the pairwise page passes to setResult once the loop is over: foundMatch
\* (built from the verification that matched), or the failure of the else branch.
CompareResolution(found, conf, verify) ==
    IF found # 0
    THEN MatchResult(conf, found, verify.explanation)
    ELSE FailureResult("Identity could not be verified. Please ensure you are registered and try in better lighting.")

\* One comparison of the loop of verifyIdentityWithConsensus returned to scan s.
CompareReturn(s) ==
    /\ scans[s].pc = "compare"
    /\ \E o \in KioskOutcomes :
        LET sc0 == scans[s]
            staff == staffList[sc0.cand]
            nRefs == ReferenceCount(staff)
            results == Append(sc0.results, VerifyIdentityWithGemini(o))
            qual == o.kind = "answer" /\ o.match /\ o.confidence >= KioskConfidenceThreshold
            sc1 == [sc0 EXCEPT
                      !.results = results,
                      !.candQualified = @ + (IF qual THEN 1 ELSE 0)]
        IN  IF Len(results) < nRefs
            THEN \* the next reference image of the same candidate
                 /\ scans' = [scans EXCEPT ![s] = sc1]
                 /\ UNCHANGED <<mode, result, timers, stats>>
            ELSE LET verify == VerifyIdentityWithConsensus(
                                   results, RequiredMatchesFor(nRefs),
                                   KioskConfidenceThreshold)
                     found == IF verify.match THEN sc0.cand ELSE sc0.found
                     conf == IF verify.match THEN verify.confidence ELSE sc0.confidence
                     next == NextCandidate(verify.match, sc0.cand, Len(staffList))
                     sc2 == [sc1 EXCEPT
                                !.firstMatch = IF @ = 0 /\ verify.match THEN sc0.cand ELSE @,
                                !.found = found, !.confidence = conf]
                 IN  IF next # 0
                     THEN /\ scans' = [scans EXCEPT ![s] =
                                  [sc2 EXCEPT !.cand = next, !.results = <<>>,
                                              !.calledCands = @ \cup {next},
                                              !.candQualified = 0]]
                          /\ UNCHANGED <<mode, result, timers, stats>>
                     ELSE LET res == CompareResolution(found, conf, verify)
                          IN  Resolve(s, sc2, found, conf, verify.explanation,
                                      res.message.text)
    /\ UNCHANGED <<staffList, loadingStaff, kiosk, checkIns, nonKiosk>>

(***************************************************************************)
(* searchFace (services/faceplusplus.ts) and the indexed branch.           *)
(***************************************************************************)
SearchConfidences == {60, 64, 90}

NoThresholds == [present |-> FALSE, e3 |-> 0, e4 |-> 0, e5 |-> 0]
SomeThresholds == [present |-> TRUE, e3 |-> 62, e4 |-> 69, e5 |-> 74]

Hit(t, u, c) == [faceToken |-> t, userId |-> u, confidence |-> c]

\* What one call of searchFace returns.  userId 0 stands for an empty user_id;
\* face token and user id n + 1 belong to nobody in the staff list.
SearchResults(n) ==
    {[success |-> FALSE, matches |-> <<>>, thresholds |-> NoThresholds, error |-> e] :
        e \in {"FaceSet not initialized", "error_message", "Network error"}}
    \cup {[success |-> TRUE, matches |-> <<>>, thresholds |-> th, error |-> ""] :
        th \in {NoThresholds, SomeThresholds}}
    \cup {[success |-> TRUE, matches |-> <<Hit(t, u, c)>>, thresholds |-> th, error |-> ""] :
        t \in 1..(n + 1), u \in 0..n, c \in SearchConfidences,
        th \in {NoThresholds, SomeThresholds}}

\* searchResult.thresholds?.['1e-3'] || 65
SearchThreshold(th) == IF th.present /\ th.e3 # 0 THEN th.e3 ELSE FallbackSearchThreshold

\* staffList.find(s => s.faceToken === topMatch.faceToken || s.id === topMatch.userId)
\* The index of the first such staff, 0 when there is none.
FindStaff(list, hit) ==
    LET ms == {i \in 1..Len(list) :
                  list[i].faceToken = hit.faceToken \/ list[i].id = hit.userId}
    IN  IF ms = {} THEN 0 ELSE CHOOSE i \in ms : \A j \in ms : i <= j

\* The staff the indexed branch accepts for a search result, 0 when none.
SearchMatch(list, sr) ==
    IF sr.success /\ Len(sr.matches) > 0
    THEN IF sr.matches[1].confidence >= SearchThreshold(sr.thresholds)
         THEN FindStaff(list, sr.matches[1])
         ELSE 0
    ELSE 0

\* What the indexed page passes to setResult once searchFace returned sr:
\* foundMatch, or the failure of the else branch.
SearchResolution(list, sr) ==
    LET found == SearchMatch(list, sr)
    IN  IF found # 0
        THEN MatchResult(FracOfInt(sr.matches[1].confidence), found,
                         [text |-> "Face++ match: c% confidence",
                          numbers |-> <<sr.matches[1].confidence>>, detail |-> ""])
        ELSE FailureResult("Face not recognized. Please ensure you are registered.")

SearchReturn(s) ==
    /\ scans[s].pc = "search"
    /\ \E sr \in SearchResults(Len(staffList)) :
        LET found == SearchMatch(staffList, sr)
            res == SearchResolution(staffList, sr)
            sc1 == [scans[s] EXCEPT
                      !.candQualified = IF sr.success /\ Len(sr.matches) > 0 THEN 1 ELSE 0]
        IN  Resolve(s, sc1, found, res.confidence, res.message, res.message.text)
    /\ UNCHANGED <<staffList, loadingStaff, kiosk, checkIns, nonKiosk>>

(***************************************************************************)
(* The check-in recorder.                                                  *)
(***************************************************************************)
\* A recorder that replaces the stored events by the new one.
LogCheckInReplacing(table, log) == <<log>>

\* dbService.logCheckIn: one insert into check_ins.
LogCheckIn(table, log) == Append(table, log)

\* await dbService.logCheckIn(...) returned: the finally block sets the timer.
LogCheckInOk(s) ==
    /\ scans[s].pc = "logCheckIn"
    /\ checkIns' = LogCheckIn(checkIns,
                      [staffId |-> staffList[scans[s].found].id,
                       confidenceScore |-> scans[s].confidence])
    /\ scans' = Finished(s)
    /\ timers' = [timers EXCEPT !.t5 = @ + 1]
    /\ UNCHANGED <<mode, result, staffList, loadingStaff, kiosk, stats, nonKiosk>>

\* await dbService.logCheckIn(...) threw: catch, then finally.
LogCheckInFail(s) ==
    /\ scans[s].pc = "logCheckIn"
    /\ result' = FailureResult("System error during verification.")
    /\ mode' = "FAILURE"
    /\ scans' = Finished(s)
    /\ timers' = [timers EXCEPT !.t5 = @ + 1]
    /\ UNCHANGED <<staffList, loadingStaff, kiosk, stats, checkIns, nonKiosk>>

\* setTimeout(() => setMode('IDLE'), 3000)
Timer3Fires ==
    /\ timers.t3 > 0
    /\ timers' = [timers EXCEPT !.t3 = @ - 1]
    /\ mode' = "IDLE"
    /\ UNCHANGED <<result, staffList, loadingStaff, kiosk, scans, stats, checkIns, nonKiosk>>

\* A timeout that clears the result and leaves the mode as it is.
Timer5FiresKeepsMode ==
    /\ timers.t5 > 0
    /\ timers' = [timers EXCEPT !.t5 = @ - 1]
    /\ result' = NullResult
    /\ UNCHANGED <<mode, staffList, loadingStaff, kiosk, scans, stats, checkIns, nonKiosk>>

\* setTimeout(() => { setMode('IDLE'); setResult(null); }, 5000)
Timer5Fires ==
    /\ timers.t5 > 0
    /\ timers' = [timers EXCEPT !.t5 = @ - 1]
    /\ mode' = "IDLE"
    /\ result' = NullResult
    /\ UNCHANGED <<staffList, loadingStaff, kiosk, scans, stats, checkIns, nonKiosk>>

\* The Try Again button of the failure sheet: onClick={() => setMode('IDLE')}
TryAgain ==
    /\ mode = "FAILURE"
    /\ mode' = "IDLE"
    /\ UNCHANGED <<result, staffList, loadingStaff, kiosk, scans, stats, timers, checkIns, nonKiosk>>

KioskNext ==
    \/ LoadStaffOk
    \/ LoadStaffFail
    \/ CaptureNoStaff
    \/ CapturePairwise
    \/ CaptureIndexed
    \/ CaptureNotConfigured
    \/ \E s \in 1..Len(scans) : CompareReturn(s)
    \/ \E s \in 1..Len(scans) : SearchReturn(s)
    \/ \E s \in 1..Len(scans) : LogCheckInOk(s)
    \/ \E s \in 1..Len(scans) : LogCheckInFail(s)
    \/ Timer3Fires
    \/ Timer5Fires
    \/ TryAgain

SpecKiosk == KioskInit /\ [][KioskNext]_vars

\* The kiosk as it is mounted, or as it is right after a scan that called the
\* oracle has resolved FAILURE (a state SpecKiosk reaches after one capture): the
\* failure is displayed and the 5 s timeout of the finally block is pending.
\* The captures counted from here on come on top of that scan.
KioskInitOrAfterFailure ==
    /\ \/ /\ mode = "IDLE"
          /\ result = NullResult
          /\ staffList = <<>>
          /\ loadingStaff = TRUE
          /\ kiosk \in [version : Versions, faceppAvailable : {FALSE}]
          /\ timers = [t3 |-> 0, t5 |-> 0]
       \/ /\ mode = "FAILURE"
          /\ loadingStaff = FALSE
          /\ \E len \in 1..MaxStaff : staffList \in StaffLists(len)
          /\ kiosk \in {[version |-> "pairwise", faceppAvailable |-> FALSE],
                        [version |-> "indexed", faceppAvailable |-> TRUE]}
          /\ result = IF kiosk.version = "pairwise"
                      THEN CompareResolution(0, FracOfInt(0), NoReferenceResult)
                      ELSE SearchResolution(staffList,
                               [success |-> TRUE, matches |-> <<>>,
                                thresholds |-> NoThresholds, error |-> ""])
          /\ timers = [t3 |-> 0, t5 |-> 1]
    /\ scans = <<>>
    /\ stats = [started |-> 0, successes |-> 0]
    /\ checkIns = <<>>
    /\ cons = ConsIdleValue
    /\ EnrollIdle
    /\ gateLog = <<>>
    /\ recent = <<>>
    /\ faceppSettings = NoFaceppSettings
    /\ cachedCredentials = NoCredentials
    /\ faceppCalls = <<>>
    /\ faceppSave = FaceppSaveIdle
    /\ everStored = {}
    /\ shots = [taken |-> 0, inFlight |-> {}, stored |-> NoShot]
    /\ single = SingleMounted
    /\ singleChecks = <<>>
    /\ singleStaff = <<>>
    /\ sessions = <<>>
    /\ sessionStore = [staff |-> <<>>, images |-> <<>>]
    /\ IdsIdle
    /\ ConfigIdle

SpecKioskBusy == KioskInitOrAfterFailure /\ [][KioskNext]_vars

\* The kiosk with every awaited call returning or throwing in the end and
\* every timeout firing; the operator's captures and clicks are not forced.
KioskFairness ==
    /\ WF_vars(LoadStaffOk \/ LoadStaffFail)
    /\ WF_vars(\E s \in 1..Len(scans) : CompareReturn(s))
    /\ WF_vars(\E s \in 1..Len(scans) : SearchReturn(s))
    /\ WF_vars(\E s \in 1..Len(scans) : LogCheckInOk(s) \/ LogCheckInFail(s))
    /\ WF_vars(Timer3Fires)
    /\ WF_vars(Timer5Fires)

SpecKioskFair == KioskInit /\ [][KioskNext]_vars /\ KioskFairness

(***************************************************************************)
(* The quality gate (checkImageQuality).  One call ends in one of: the     *)
(* oracle answered with a parsable verdict; the response text did not      *)
(* parse; generateContent threw; getClient threw.                          *)
(***************************************************************************)
QualityAnswer(v, r) == [kind |-> "answer", valid |-> v, reason |-> r]
QualityFailure(k) == [kind |-> k, valid |-> FALSE, reason |-> ""]

QualityOutcomes ==
    {QualityAnswer(TRUE, "clear single face"), QualityAnswer(FALSE, "no face visible")}
        \cup {QualityFailure(k) : k \in FailureKinds}

SkippedParse == "AI Check Skipped (Parse Error)"
SkippedNetwork == "AI Check Skipped (Network/API Error)"

\* A gate that fails closed.
CheckImageQualityFailClosed(outcome) ==
    IF outcome.kind = "answer"
    THEN [valid |-> outcome.valid, reason |-> outcome.reason, threw |-> FALSE]
    ELSE [valid |-> FALSE, reason |-> SkippedNetwork, threw |-> FALSE]

\* try { ai = await getClient(); response = await generateContent(...);
\*       result = parseJSON(response.text); return result || {skipped (parse)} }
\* catch { return {skipped (network)} }
CheckImageQuality(outcome) ==
    IF outcome.kind = "answer"
    THEN [valid |-> outcome.valid, reason |-> outcome.reason, threw |-> FALSE]
    ELSE IF outcome.kind = "parseError"
    THEN [valid |-> TRUE, reason |-> SkippedParse, threw |-> FALSE]
    ELSE [valid |-> TRUE, reason |-> SkippedNetwork, threw |-> FALSE]

(***************************************************************************)
(* Calls of the quality gate on their own: each call draws what the oracle *)
(* call behind it does and records what checkImageQuality returns.         *)
(***************************************************************************)
GateInit ==
    /\ gateLog = <<>>
    /\ recent = <<>>
    /\ faceppSettings = NoFaceppSettings
    /\ cachedCredentials = NoCredentials
    /\ faceppCalls = <<>>
    /\ faceppSave = FaceppSaveIdle
    /\ everStored = {}
    /\ shots = [taken |-> 0, inFlight |-> {}, stored |-> NoShot]
    /\ single = SingleMounted
    /\ singleChecks = <<>>
    /\ singleStaff = <<>>
    /\ sessions = <<>>
    /\ sessionStore = [staff |-> <<>>, images |-> <<>>]
    /\ IdsIdle
    /\ ConfigIdle
    /\ cons = ConsIdleValue
    /\ KioskIdle
    /\ EnrollIdle

GateCall ==
    /\ Len(gateLog) < MaxGateCalls
    /\ \E o \in QualityOutcomes :
        gateLog' = Append(gateLog, [outcome |-> o, ret |-> CheckImageQuality(o)])
    /\ UNCHANGED nonGate

GateNext == GateCall

SpecGate == GateInit /\ [][GateNext]_vars

(***************************************************************************)
(* The multi-angle enrollment page (unnamed/part_004).  The image data of  *)
(* a photo is opaque to the page and is not modelled; a photo carries,     *)
(* besides its fields, what the quality gate returned for it (gate).       *)
(***************************************************************************)
Names == {NoName, <<" ">>, <<"A">>}

RECURSIVE TrimStart(_)
TrimStart(str) ==
    IF str # <<>> /\ Head(str) = " " THEN TrimStart(Tail(str)) ELSE str

RECURSIVE TrimEnd(_)
TrimEnd(str) ==
    IF str # <<>> /\ str[Len(str)] = " " THEN TrimEnd(SubSeq(str, 1, Len(str) - 1)) ELSE str

\* String.prototype.trim
Trim(str) == TrimEnd(TrimStart(str))

\* const currentAngle = PHOTO_ANGLES[currentAngleIndex]
AngleAt(index) == PhotoAngles[index + 1]

LastAngleIndex == Len(PhotoAngles) - 1

\* The photos stored for an angle.
PhotosOf(photos, angle) == {i \in 1..Len(photos) : photos[i].angleType = angle}

\* const currentCapturedPhoto = capturedPhotos.find(p => p.angleType === currentAngle.type)
HasCurrentCapturedPhoto == PhotosOf(capturedPhotos, AngleAt(currentAngleIndex)) # {}

\* Finalize as soon as one angle is valid.
AllPhotosValidSome(photos) ==
    \E a \in 1..Len(PhotoAngles) :
        \E i \in 1..Len(photos) : photos[i].angleType = PhotoAngles[a] /\ photos[i].isValid

\* PHOTO_ANGLES.every(angle => capturedPhotos.some(p => p.angleType === angle.type && p.isValid))
AllPhotosValid(photos) ==
    \A a \in 1..Len(PhotoAngles) :
        \E i \in 1..Len(photos) : photos[i].angleType = PhotoAngles[a] /\ photos[i].isValid

IsIdReady == formData.id # "Generating..." /\ formData.id # "ERROR"
IsNameReady == Len(Trim(formData.fullName)) > 0

\* const canSubmit = isIdReady && isNameReady && allPhotosValid && !isSaving
CanSubmit == IsIdReady /\ IsNameReady /\ AllPhotosValid(capturedPhotos) /\ ~isSaving

\* The page is mounted: onNavigate(ADMIN_DASHBOARD) has not run.
Mounted == save.pc # "left"

\* The page runs its handlers and callbacks: it is mounted and no alert dialog
\* (which blocks the thread until the operator dismisses it) is open.
Responsive == Mounted /\ save.pc # "alert"

\* Calls of handleCapture at their await, and auto-advance timeouts not yet fired.
Pending ==
    LET RECURSIVE Sum(_, _)
        Sum(f, dom) == IF dom = {} THEN 0
                       ELSE LET x == CHOOSE y \in dom : TRUE IN f[x] + Sum(f, dom \ {x})
    IN  Sum(checks, DOMAIN checks) + Sum(advTimers, DOMAIN advTimers)

\* What the oracle call behind the gate does in an enrollment session.  A failed
\* call makes the gate return valid (CheckImageQuality); the page tells that from
\* a valid answer by the reason text only.
EnrollGateOutcomes ==
    {QualityAnswer(TRUE, "clear single face"), QualityAnswer(FALSE, "no face visible")}

EnrollInit ==
    /\ EnrollIdle
    /\ KioskIdle
    /\ cons = ConsIdleValue
    /\ gateLog = <<>>
    /\ recent = <<>>
    /\ faceppSettings = NoFaceppSettings
    /\ cachedCredentials = NoCredentials
    /\ faceppCalls = <<>>
    /\ faceppSave = FaceppSaveIdle
    /\ everStored = {}
    /\ shots = [taken |-> 0, inFlight |-> {}, stored |-> NoShot]
    /\ single = SingleMounted
    /\ singleChecks = <<>>
    /\ singleStaff = <<>>
    /\ sessions = <<>>
    /\ sessionStore = [staff |-> <<>>, images |-> <<>>]
    /\ IdsIdle
    /\ ConfigIdle

\* useEffect: fetchNextId resolved.
FetchNextIdOk ==
    /\ Responsive
    /\ formData.id = "Generating..."
    /\ formData' = [formData EXCEPT !.id = "FG0001"]
    /\ UNCHANGED <<currentAngleIndex, capturedPhotos, isChecking, isSaving, checks,
                   advTimers, save, staffTable, staffImages, nonEnroll>>

\* useEffect: getNextId threw.
FetchNextIdFail ==
    /\ Responsive
    /\ formData.id = "Generating..."
    /\ formData' = [formData EXCEPT !.id = "ERROR"]
    /\ UNCHANGED <<currentAngleIndex, capturedPhotos, isChecking, isSaving, checks,
                   advTimers, save, staffTable, staffImages, nonEnroll>>

\* onChange of the Full Name input
SetFullName ==
    /\ Responsive
    /\ \E n \in Names : n # formData.fullName /\ formData' = [formData EXCEPT !.fullName = n]
    /\ UNCHANGED <<currentAngleIndex, capturedPhotos, isChecking, isSaving, checks,
                   advTimers, save, staffTable, staffImages, nonEnroll>>

\* A selection that discards the photo of the angle it selects.
SelectAngleDiscarding ==
    /\ Responsive
    /\ \E idx \in 0..LastAngleIndex :
        /\ idx # currentAngleIndex
        /\ currentAngleIndex' = idx
        /\ capturedPhotos' = SelectSeq(capturedPhotos, LAMBDA p : p.angleType # AngleAt(idx))
    /\ UNCHANGED <<formData, isChecking, isSaving, checks,
                   advTimers, save, staffTable, staffImages, nonEnroll>>

\* The progress buttons: onClick={() => setCurrentAngleIndex(idx)}
SelectAngle ==
    /\ Responsive
    /\ \E idx \in 0..LastAngleIndex : idx # currentAngleIndex /\ currentAngleIndex' = idx
    /\ UNCHANGED <<formData, capturedPhotos, isChecking, isSaving, checks,
                   advTimers, save, staffTable, staffImages, nonEnroll>>

\* Previous: setCurrentAngleIndex(Math.max(0, currentAngleIndex - 1)), disabled at 0
PreviousAngle ==
    /\ Responsive
    /\ currentAngleIndex # 0
    /\ currentAngleIndex' = IF currentAngleIndex - 1 > 0 THEN currentAngleIndex - 1 ELSE 0
    /\ UNCHANGED <<formData, capturedPhotos, isChecking, isSaving, checks,
                   advTimers, save, staffTable, staffImages, nonEnroll>>

\* Next: setCurrentAngleIndex(Math.min(PHOTO_ANGLES.length - 1, currentAngleIndex + 1))
NextAngle ==
    /\ Responsive
    /\ currentAngleIndex # LastAngleIndex
    /\ currentAngleIndex' = IF currentAngleIndex + 1 < LastAngleIndex
                            THEN currentAngleIndex + 1 ELSE LastAngleIndex
    /\ UNCHANGED <<formData, capturedPhotos, isChecking, isSaving, checks,
                   advTimers, save, staffTable, staffImages, nonEnroll>>

\* handleCapture up to its await: the camera is rendered only while the current
\* angle has no stored photo.  The call keeps the angle of its render.
CapturePhoto ==
    /\ Responsive
    /\ ~HasCurrentCapturedPhoto
    /\ Pending < MaxPending
    /\ isChecking' = TRUE
    /\ checks' = [checks EXCEPT ![currentAngleIndex] = @ + 1]
    /\ UNCHANGED <<formData, currentAngleIndex, capturedPhotos, isSaving,
                   advTimers, save, staffTable, staffImages, nonEnroll>>

\* A capture stored without removing the angle's previous photo.
StorePhotoAppendOnly(photos, newPhoto) == Append(photos, newPhoto)

\* A store that keeps the new photo only.
StorePhotoAlone(photos, newPhoto) == <<newPhoto>>

\* setCapturedPhotos(prev => [...prev.filter(p => p.angleType !== currentAngle.type), newPhoto])
StorePhoto(photos, newPhoto) ==
    Append(SelectSeq(photos, LAMBDA p : p.angleType # newPhoto.angleType), newPhoto)

\* A photo filed under the angle selected when the check returns.
NewPhotoAtSelectedAngle(angleIndex, res) ==
    [angleType |-> AngleAt(currentAngleIndex), isValid |-> res.valid, reason |-> res.reason,
     gate |-> res.valid]

\* const newPhoto = { imageBase64: img, angleType: currentAngle.type,
\*                    isValid: result.valid, reason: result.reason }
NewPhoto(angleIndex, res) ==
    [angleType |-> AngleAt(angleIndex), isValid |-> res.valid, reason |-> res.reason,
     gate |-> res.valid]

\* handleCapture after its await: checkImageQuality returned.
QualityReturn ==
    /\ Responsive
    /\ \E a \in DOMAIN checks : \E o \in EnrollGateOutcomes :
        LET res == CheckImageQuality(o)
        IN  /\ checks[a] > 0
            /\ checks' = [checks EXCEPT ![a] = @ - 1]
            /\ IF res.threw
               THEN \* the rejection ends handleCapture at its await
                    UNCHANGED <<capturedPhotos, isChecking, advTimers>>
               ELSE /\ capturedPhotos' = StorePhoto(capturedPhotos, NewPhoto(a, res))
                    /\ isChecking' = FALSE
                    /\ advTimers' = IF res.valid /\ a < LastAngleIndex
                                    THEN [advTimers EXCEPT ![a + 1] = @ + 1]
                                    ELSE advTimers
    /\ UNCHANGED <<formData, currentAngleIndex, isSaving, save, staffTable,
                   staffImages, nonEnroll>>

\* setTimeout(() => setCurrentAngleIndex(currentAngleIndex + 1), 1000)
AdvanceTimerFires ==
    /\ Responsive
    /\ \E t \in DOMAIN advTimers :
        /\ advTimers[t] > 0
        /\ advTimers' = [advTimers EXCEPT ![t] = @ - 1]
        /\ currentAngleIndex' = t
    /\ UNCHANGED <<formData, capturedPhotos, isChecking, isSaving, checks,
                   save, staffTable, staffImages, nonEnroll>>

\* A retake that clears every stored photo.
RetakeAll ==
    /\ Responsive
    /\ HasCurrentCapturedPhoto
    /\ capturedPhotos' = <<>>
    /\ UNCHANGED <<formData, currentAngleIndex, isChecking, isSaving, checks,
                   advTimers, save, staffTable, staffImages, nonEnroll>>

\* handleRetake: setCapturedPhotos(prev => prev.filter(p => p.angleType !== currentAngle.type))
Retake ==
    /\ Responsive
    /\ HasCurrentCapturedPhoto
    /\ capturedPhotos' = SelectSeq(capturedPhotos,
                             LAMBDA p : p.angleType # AngleAt(currentAngleIndex))
    /\ UNCHANGED <<formData, currentAngleIndex, isChecking, isSaving, checks,
                   advTimers, save, staffTable, staffImages, nonEnroll>>

\* A form that can be submitted whatever canSubmit says: only the test at the
\* head of handleSave stands between the operator and the store.
SaveClickOnAnyForm ==
    /\ Responsive
    /\ save.pc = "idle"
    /\ AllPhotosValid(capturedPhotos) /\ formData.fullName # NoName
    /\ isSaving' = TRUE
    /\ save' = [pc |-> "addStaff", photos |-> capturedPhotos, id |-> formData.id,
                name |-> formData.fullName, alert |-> ""]
    /\ UNCHANGED <<formData, currentAngleIndex, capturedPhotos, isChecking, checks,
                   advTimers, staffTable, staffImages, nonEnroll>>

\* handleSave up to its first await.  The submit button is disabled unless
\* canSubmit; the handler returns at once if (!allPhotosValid || !formData.fullName).
\* newStaff is built from formData as the handler's render saw it.
SaveClick ==
    /\ Responsive
    /\ CanSubmit
    /\ AllPhotosValid(capturedPhotos) /\ formData.fullName # NoName
    /\ isSaving' = TRUE
    /\ save' = [pc |-> "addStaff", photos |-> capturedPhotos, id |-> formData.id,
                name |-> formData.fullName, alert |-> ""]
    /\ UNCHANGED <<formData, currentAngleIndex, capturedPhotos, isChecking, checks,
                   advTimers, staffTable, staffImages, nonEnroll>>

\* await dbService.addStaff(newStaff) returned: the row is inserted (id is the
\* primary key of the table) and addStaffImages is awaited.
AddStaffOk ==
    /\ save.pc = "addStaff"
    /\ save.id \notin staffTable
    /\ staffTable' = staffTable \cup {save.id}
    /\ save' = [save EXCEPT !.pc = "addStaffImages"]
    /\ UNCHANGED <<formData, currentAngleIndex, capturedPhotos, isChecking, isSaving,
                   checks, advTimers, staffImages, nonEnroll>>

\* addStaff threw: catch { alert(err) }
AddStaffFail ==
    /\ save.pc = "addStaff"
    /\ save' = [save EXCEPT !.pc = "alert", !.alert = "Error adding staff"]
    /\ UNCHANGED <<formData, currentAngleIndex, capturedPhotos, isChecking, isSaving,
                   checks, advTimers, staffTable, staffImages, nonEnroll>>

\* const imagesToSave = capturedPhotos.map(p => ({ imageBase64, angleType }))
ImagesToSave(photos) ==
    [i \in 1..Len(photos) |-> [angleType |-> photos[i].angleType, gate |-> photos[i].gate]]

\* await dbService.addStaffImages(formData.id, imagesToSave) returned:
\* onNavigate(ADMIN_DASHBOARD), finally setIsSaving(false).
AddStaffImagesOk ==
    /\ save.pc = "addStaffImages"
    /\ staffImages' = Append(staffImages,
                             [staffId |-> save.id, images |-> ImagesToSave(save.photos)])
    /\ isSaving' = FALSE
    /\ save' = [pc |-> "left", photos |-> <<>>, id |-> "", name |-> NoName, alert |-> ""]
    /\ UNCHANGED <<formData, currentAngleIndex, capturedPhotos, isChecking,
                   checks, advTimers, staffTable, nonEnroll>>

\* An addStaffImages failure that is caught without a word to the operator.
AddStaffImagesFailSilently ==
    /\ save.pc = "addStaffImages"
    /\ isSaving' = FALSE
    /\ save' = [pc |-> "idle", photos |-> <<>>, id |-> "", name |-> NoName, alert |-> ""]
    /\ UNCHANGED <<formData, currentAngleIndex, capturedPhotos, isChecking,
                   checks, advTimers, staffTable, staffImages, nonEnroll>>

\* addStaffImages threw: catch { alert(err) }.  Nothing is done about the row
\* addStaff inserted.
AddStaffImagesFail ==
    /\ save.pc = "addStaffImages"
    /\ save' = [save EXCEPT !.pc = "alert", !.alert = "Error adding staff images"]
    /\ UNCHANGED <<formData, currentAngleIndex, capturedPhotos, isChecking, isSaving,
                   checks, advTimers, staffTable, staffImages, nonEnroll>>

\* The operator dismisses the alert: finally { setIsSaving(false) }
DismissAlert ==
    /\ save.pc = "alert"
    /\ isSaving' = FALSE
    /\ save' = [pc |-> "idle", photos |-> <<>>, id |-> "", name |-> NoName, alert |-> ""]
    /\ UNCHANGED <<formData, currentAngleIndex, capturedPhotos, isChecking,
                   checks, advTimers, staffTable, staffImages, nonEnroll>>

EnrollNext ==
    \/ FetchNextIdOk
    \/ FetchNextIdFail
    \/ SetFullName
    \/ SelectAngle
    \/ PreviousAngle
    \/ NextAngle
    \/ CapturePhoto
    \/ QualityReturn
    \/ AdvanceTimerFires
    \/ Retake
    \/ SaveClick
    \/ AddStaffOk
    \/ AddStaffFail
    \/ AddStaffImagesOk
    \/ AddStaffImagesFail
    \/ DismissAlert

SpecEnroll == EnrollInit /\ [][EnrollNext]_vars


(***************************************************************************)
(* Allocation of staff ids: getNextId over the staff table, with the rows  *)
(* being added (under an id getNextId returned) and deleted.  Ids are      *)
(* sequences of characters.                                                *)
(***************************************************************************)
Digits == <<"0", "1", "2", "3", "4", "5", "6", "7", "8", "9">>

IsDigit(c) == \E d \in 1..Len(Digits) : Digits[d] = c

DigitValue(c) == (CHOOSE d \in 1..Len(Digits) : Digits[d] = c) - 1

\* s.id.replace(/[^0-9]/g, '')
StripNonDigits(id) == SelectSeq(id, IsDigit)

\* isNaN(parseInt(numStr, 10)), numStr holding digits only: the empty string
IsNaN(numStr) == numStr = <<>>

\* parseInt(numStr, 10) of a non-empty string of digits
RECURSIVE ParseInt(_)
ParseInt(numStr) ==
    IF numStr = <<>> THEN 0
    ELSE ParseInt(SubSeq(numStr, 1, Len(numStr) - 1)) * 10 + DigitValue(numStr[Len(numStr)])

\* nextNum.toString()
RECURSIVE NumberToString(_)
NumberToString(n) ==
    IF n < 10 THEN <<Digits[n + 1]>>
    ELSE NumberToString(n \div 10) \o <<Digits[(n % 10) + 1]>>

\* str.padStart(len, c)
RECURSIVE PadStart(_, _, _)
PadStart(str, len, c) ==
    IF Len(str) >= len THEN str ELSE PadStart(<<c>> \o str, len, c)

\* data.reduce((max, s) => isNaN(num) ? max : Math.max(max, num), 0)
RECURSIVE MaxNum(_)
MaxNum(ids) ==
    IF ids = {} THEN 0
    ELSE LET s == CHOOSE x \in ids : TRUE
             numStr == StripNonDigits(s)
             max == MaxNum(ids \ {s})
         IN  IF IsNaN(numStr) THEN max
             ELSE IF ParseInt(numStr) > max THEN ParseInt(numStr) ELSE max

\* `FG${...}`
FG(digits) == <<"F", "G">> \o digits

\* An allocation that counts the rows.
GetNextIdByCount(ids) == FG(PadStart(NumberToString(Cardinality(ids) + 1), 4, "0"))

\* getNextId, over the ids of the staff table
GetNextId(ids) ==
    IF ids = {} THEN FG(<<"0", "0", "0", "1">>)
    ELSE FG(PadStart(NumberToString(MaxNum(ids) + 1), 4, "0"))

\* Ids the staff table may hold when the application starts.
SeedIds ==
    { FG(<<"0", "0", "0", "1">>), FG(<<"0", "0", "0", "7">>),
      FG(<<"9", "9", "9", "9">>), <<"A", "B", "1", "2">>, <<"A", "1", "B", "2">>,
      <<"g", "a", "r", "b", "a", "g", "e">> }

IdsInit ==
    /\ idTable \in {t \in SUBSET SeedIds : Cardinality(t) <= MaxSeed}
    /\ everAssigned = idTable
    /\ issued = <<>>
    /\ cons = ConsIdleValue
    /\ KioskIdle
    /\ EnrollIdle
    /\ gateLog = <<>>
    /\ recent = <<>>
    /\ faceppSettings = NoFaceppSettings
    /\ cachedCredentials = NoCredentials
    /\ faceppCalls = <<>>
    /\ faceppSave = FaceppSaveIdle
    /\ everStored = {}
    /\ shots = [taken |-> 0, inFlight |-> {}, stored |-> NoShot]
    /\ single = SingleMounted
    /\ singleChecks = <<>>
    /\ singleStaff = <<>>
    /\ sessions = <<>>
    /\ sessionStore = [staff |-> <<>>, images |-> <<>>]
    /\ ConfigIdle

\* fetchNextId of an enrollment session: const nextId = await dbService.getNextId()
IdsGetNextId ==
    /\ Len(issued) < MaxIssued
    /\ issued' = Append(issued, [table |-> idTable, before |-> everAssigned,
                                 ret |-> GetNextId(idTable)])
    /\ UNCHANGED <<idTable, everAssigned, nonIds>>

\* handleSave of a session: dbService.addStaff under the id the session fetched;
\* the insert is refused when a row has that id.
IdsAddStaff ==
    /\ \E i \in 1..Len(issued) :
        /\ issued[i].ret \notin idTable
        /\ idTable' = idTable \union {issued[i].ret}
        /\ everAssigned' = everAssigned \union {issued[i].ret}
    /\ UNCHANGED <<issued, nonIds>>

\* deleteStaff(id)
IdsDeleteStaff ==
    /\ \E id \in idTable : idTable' = idTable \ {id}
    /\ UNCHANGED <<everAssigned, issued, nonIds>>

IdsNext ==
    \/ IdsGetNextId
    \/ IdsAddStaff
    \/ IdsDeleteStaff

SpecIds == IdsInit /\ [][IdsNext]_vars


(***************************************************************************)
(* The credential of the oracle: the GEMINI_API_KEY row of the settings    *)
(* table, the module variable cachedApiKey of geminiService, the calls of  *)
(* getClient and the handlers of the configuration page.  Every await is a *)
(* step of its own: the row is read (or written) by the store in one step  *)
(* and the caller continues in a later one.                                *)
(***************************************************************************)
\* Keys the administrator may save.
Keys == {"k1", "k2"}

\* process.env.API_KEY
EnvKey == "env"

\* The credential the configuration in force designates: the stored key, and
\* the environment key when none is stored.
ConfiguredKey == IF storedKey # NoKey THEN storedKey ELSE EnvKey

\* Whether a call that starts now starts after a configuration change completed
\* and while no other one is under way.
StartsAfterChange == cfg.pc = "idle" /\ cfg.changes > 0

\* Calls of getClient made so far.
ClientCalls == Len(clients) + Len(uses)

ConfigInit ==
    /\ storedKey \in {NoKey} \union Keys
    /\ cachedApiKey = NoKey
    /\ clients = <<>>
    /\ cfg = [pc |-> "idle", key |-> NoKey, changes |-> 0]
    /\ uses = <<>>
    /\ cons = ConsIdleValue
    /\ KioskIdle
    /\ EnrollIdle
    /\ gateLog = <<>>
    /\ recent = <<>>
    /\ faceppSettings = NoFaceppSettings
    /\ cachedCredentials = NoCredentials
    /\ faceppCalls = <<>>
    /\ faceppSave = FaceppSaveIdle
    /\ everStored = {}
    /\ shots = [taken |-> 0, inFlight |-> {}, stored |-> NoShot]
    /\ single = SingleMounted
    /\ singleChecks = <<>>
    /\ singleStaff = <<>>
    /\ sessions = <<>>
    /\ sessionStore = [staff |-> <<>>, images |-> <<>>]
    /\ IdsIdle

\* getClient: if (cachedApiKey) return new GoogleGenAI({ apiKey: cachedApiKey })
GetClientCached ==
    /\ ClientCalls < MaxClientCalls
    /\ cachedApiKey # NoKey
    /\ uses' = Append(uses, [key |-> cachedApiKey, configured |-> ConfiguredKey,
                             afterChange |-> StartsAfterChange, dbFailed |-> FALSE])
    /\ UNCHANGED <<storedKey, cachedApiKey, clients, cfg, nonCfg>>

\* getClient: cachedApiKey is null, up to await dbService.getSetting("GEMINI_API_KEY")
GetClientStart ==
    /\ ClientCalls < MaxClientCalls
    /\ cachedApiKey = NoKey
    /\ clients' = Append(clients, [pc |-> "getSetting", dbKey |-> NoKey, dbFailed |-> FALSE,
                                   configured |-> ConfiguredKey,
                                   afterChange |-> StartsAfterChange])
    /\ UNCHANGED <<storedKey, cachedApiKey, cfg, uses, nonCfg>>

\* dbService.getSetting: the store reads the row, or the request fails
GetSettingReturn ==
    /\ \E i \in 1..Len(clients) :
        /\ clients[i].pc = "getSetting"
        /\ \E failed \in BOOLEAN :
            clients' = [clients EXCEPT ![i] =
                           [@ EXCEPT !.pc = "reply",
                                     !.dbKey = IF failed THEN NoKey ELSE storedKey,
                                     !.dbFailed = failed]]
    /\ UNCHANGED <<storedKey, cachedApiKey, cfg, uses, nonCfg>>

\* getClient after the await: cachedApiKey = dbKey, or the environment key
GetClientReply ==
    /\ \E i \in 1..Len(clients) :
        LET c == clients[i]
            key == IF c.dbKey # NoKey THEN c.dbKey ELSE EnvKey
        IN  /\ c.pc = "reply"
            /\ cachedApiKey' = key
            /\ uses' = Append(uses, [key |-> key, configured |-> c.configured,
                                     afterChange |-> c.afterChange, dbFailed |-> c.dbFailed])
            /\ clients' = SubSeq(clients, 1, i - 1) \o SubSeq(clients, i + 1, Len(clients))
    /\ UNCHANGED <<storedKey, cfg, nonCfg>>

\* ApiConfig.handleSave up to await dbService.setSetting('GEMINI_API_KEY', apiKey), or
\* handleClear up to await dbService.deleteSetting('GEMINI_API_KEY').  The calls of
\* getClient in flight no longer count as started after a completed change.
ConfigStart ==
    /\ cfg.pc = "idle"
    /\ cfg.changes < MaxChanges
    /\ \E k \in Keys \union {NoKey} :
        cfg' = [cfg EXCEPT !.pc = IF k = NoKey THEN "deleteSetting" ELSE "setSetting", !.key = k]
    /\ clients' = [i \in 1..Len(clients) |-> [clients[i] EXCEPT !.afterChange = FALSE]]
    /\ UNCHANGED <<storedKey, cachedApiKey, uses, nonCfg>>

\* setSetting / deleteSetting: the store writes the row
ConfigWrite ==
    /\ cfg.pc \in {"setSetting", "deleteSetting"}
    /\ storedKey' = cfg.key
    /\ cfg' = [cfg EXCEPT !.pc = "written"]
    /\ UNCHANGED <<cachedApiKey, clients, uses, nonCfg>>

\* setSetting / deleteSetting rejects: the catch block, the cache is not cleared
ConfigWriteFail ==
    /\ cfg.pc \in {"setSetting", "deleteSetting"}
    /\ cfg' = [cfg EXCEPT !.pc = "idle", !.key = NoKey]
    /\ UNCHANGED <<storedKey, cachedApiKey, clients, uses, nonCfg>>

\* the handler after the await: clearApiKeyCache()
ConfigDone ==
    /\ cfg.pc = "written"
    /\ cachedApiKey' = NoKey
    /\ cfg' = [pc |-> "idle", key |-> NoKey, changes |-> cfg.changes + 1]
    /\ UNCHANGED <<storedKey, clients, uses, nonCfg>>

ConfigNext ==
    \/ GetClientCached
    \/ GetClientStart
    \/ GetSettingReturn
    \/ GetClientReply
    \/ ConfigStart
    \/ ConfigWrite
    \/ ConfigWriteFail
    \/ ConfigDone

SpecConfig == ConfigInit /\ [][ConfigNext]_vars

(***************************************************************************)
(* Reading the check-in table (dbService.getRecentCheckIns).  A row of     *)
(* check_ins is modelled here by its id and its timestamp, the two fields  *)
(* the reading depends on; timestamps are Date.now() values taken by the   *)
(* kiosk before the insert is awaited, so rows need not be stored in the   *)
(* order of their timestamps, and two rows may carry the same timestamp.   *)
(***************************************************************************)
\* .order('timestamp', { ascending: false }) / index.openCursor(null, 'prev'):
\* the orders in which the rows can be delivered, newest first.
OrderDescending(table) ==
    {[i \in 1..Len(table) |-> table[p[i]]] :
        p \in {q \in Permutations(1..Len(table)) :
                 \A i \in 1..(Len(table) - 1) :
                    table[q[i]].timestamp >= table[q[i + 1]].timestamp}}

\* A reading that keeps one row more than the limit asks for.
FirstRowsAndOne(rows, limit) ==
    SubSeq(rows, 1, IF Len(rows) < limit + 1 THEN Len(rows) ELSE limit + 1)

\* .limit(limit) / if (cursor && results.length < limit) results.push(cursor.value)
FirstRows(rows, limit) ==
    SubSeq(rows, 1, IF Len(rows) < limit THEN Len(rows) ELSE limit)

\* An empty check_ins table and no call made.
CheckInsInit ==
    /\ recent = <<>>
    /\ faceppSettings = NoFaceppSettings
    /\ cachedCredentials = NoCredentials
    /\ faceppCalls = <<>>
    /\ faceppSave = FaceppSaveIdle
    /\ everStored = {}
    /\ shots = [taken |-> 0, inFlight |-> {}, stored |-> NoShot]
    /\ single = SingleMounted
    /\ singleChecks = <<>>
    /\ singleStaff = <<>>
    /\ sessions = <<>>
    /\ sessionStore = [staff |-> <<>>, images |-> <<>>]
    /\ KioskIdle
    /\ cons = ConsIdleValue
    /\ gateLog = <<>>
    /\ EnrollIdle
    /\ IdsIdle
    /\ ConfigIdle

\* dbService.logCheckIn called with a log whose timestamp is ts.
StoreLogCheckIn ==
    /\ Len(checkIns) < MaxEvents
    /\ \E ts \in 1..MaxEvents :
          checkIns' = LogCheckIn(checkIns, [id |-> Len(checkIns) + 1, timestamp |-> ts])
    /\ UNCHANGED <<mode, result, staffList, loadingStaff, kiosk, scans, stats, timers,
                   nonKiosk>>

\* dbService.getRecentCheckIns(limit)
GetRecentCheckIns ==
    /\ Len(recent) < MaxReads
    /\ \E limit \in 0..(MaxEvents + 1), rows \in OrderDescending(checkIns) :
          recent' = Append(recent, [limit |-> limit, table |-> checkIns,
                                    ret |-> FirstRows(rows, limit)])
    /\ UNCHANGED nonRead

CheckInsNext ==
    \/ StoreLogCheckIn
    \/ GetRecentCheckIns

SpecCheckIns == CheckInsInit /\ [][CheckInsNext]_vars

(***************************************************************************)
(* Enrollment sessions open at the same time over one store.  A session    *)
(* fetches its id when it mounts and stores under that id when the         *)
(* operator submits; the staff table is the sequence of the rows inserted, *)
(* each with the session that inserted it (0 for a row that was there      *)
(* before).                                                                *)
(***************************************************************************)
\* The ids of the rows of the staff table.
StaffIds(store) == {store.staff[i].id : i \in 1..Len(store.staff)}

\* Staff tables the sessions may start from.
SeedStaff ==
    { <<>>,
      <<[id |-> FG(<<"0", "0", "0", "1">>), session |-> 0]>>,
      <<[id |-> FG(<<"0", "0", "0", "7">>), session |-> 0]>> }

SessionsInit ==
    /\ sessions = [s \in 1..MaxSessions |-> [pc |-> "mount", id |-> <<>>, refused |-> FALSE]]
    /\ sessionStore \in [staff : SeedStaff, images : {<<>>}]
    /\ recent = <<>>
    /\ faceppSettings = NoFaceppSettings
    /\ cachedCredentials = NoCredentials
    /\ faceppCalls = <<>>
    /\ faceppSave = FaceppSaveIdle
    /\ everStored = {}
    /\ shots = [taken |-> 0, inFlight |-> {}, stored |-> NoShot]
    /\ single = SingleMounted
    /\ singleChecks = <<>>
    /\ singleStaff = <<>>
    /\ KioskIdle
    /\ cons = ConsIdleValue
    /\ gateLog = <<>>
    /\ EnrollIdle
    /\ IdsIdle
    /\ ConfigIdle

\* useEffect of session s: const nextId = await dbService.getNextId(); setFormData(id: nextId)
SessionFetchNextId(s) ==
    /\ sessions[s].pc = "mount"
    /\ sessions' = [sessions EXCEPT ![s] = [@ EXCEPT !.pc = "form",
                                                      !.id = GetNextId(StaffIds(sessionStore))]]
    /\ UNCHANGED <<sessionStore, nonSessions>>

\* handleSave of session s up to await dbService.addStaff(newStaff)
SessionSave(s) ==
    /\ sessions[s].pc = "form"
    /\ sessions' = [sessions EXCEPT ![s] = [@ EXCEPT !.pc = "addStaff"]]
    /\ UNCHANGED <<sessionStore, nonSessions>>

\* An insert that never refuses a row.
SessionAddStaffAnyId(s) ==
    /\ sessions[s].pc = "addStaff"
    /\ sessionStore' = [sessionStore EXCEPT
                          !.staff = Append(@, [id |-> sessions[s].id, session |-> s])]
    /\ sessions' = [sessions EXCEPT ![s] = [@ EXCEPT !.pc = "addStaffImages"]]
    /\ UNCHANGED nonSessions

\* dbService.addStaff of session s: store.add(staff) on a store keyed by id.
\* The request fails when a row has the id (the handler's catch alerts and
\* addStaffImages is not reached); otherwise the row is inserted.
SessionAddStaff(s) ==
    /\ sessions[s].pc = "addStaff"
    /\ IF sessions[s].id \in StaffIds(sessionStore)
       THEN /\ sessions' = [sessions EXCEPT ![s] = [@ EXCEPT !.pc = "form", !.refused = TRUE]]
            /\ UNCHANGED sessionStore
       ELSE /\ sessionStore' = [sessionStore EXCEPT
                                  !.staff = Append(@, [id |-> sessions[s].id, session |-> s])]
            /\ sessions' = [sessions EXCEPT ![s] = [@ EXCEPT !.pc = "addStaffImages"]]
    /\ UNCHANGED nonSessions

\* await dbService.addStaffImages(formData.id, imagesToSave) of session s, then onNavigate
SessionAddStaffImages(s) ==
    /\ sessions[s].pc = "addStaffImages"
    /\ sessionStore' = [sessionStore EXCEPT
                          !.images = Append(@, [staffId |-> sessions[s].id, session |-> s])]
    /\ sessions' = [sessions EXCEPT ![s] = [@ EXCEPT !.pc = "left"]]
    /\ UNCHANGED nonSessions

SessionsNext ==
    \E s \in 1..MaxSessions :
        \/ SessionFetchNextId(s)
        \/ SessionSave(s)
        \/ SessionAddStaff(s)
        \/ SessionAddStaffImages(s)

SpecSessions == SessionsInit /\ [][SessionsNext]_vars

(***************************************************************************)
(* The single-photo enrollment page (pages/Enrollment.tsx).  Photos are    *)
(* numbered in the order they are captured; 0 stands for null in           *)
(* capturedImage.  The id and the name of the form are taken to be ready.  *)
(***************************************************************************)
\* const isPhotoReady = capturedImage && !isChecking && qualityCheck?.valid
\* const canSubmit = isIdReady && isNameReady && isPhotoReady && !isSaving
SingleCanSubmit ==
    /\ single.capturedImage # 0
    /\ ~single.isChecking
    /\ ~single.qualityCheck.isNull /\ single.qualityCheck.valid
    /\ ~single.isSaving

SingleInit ==
    /\ single = SingleMounted
    /\ singleChecks = <<>>
    /\ singleStaff = <<>>
    /\ sessions = <<>>
    /\ sessionStore = [staff |-> <<>>, images |-> <<>>]
    /\ recent = <<>>
    /\ faceppSettings = NoFaceppSettings
    /\ cachedCredentials = NoCredentials
    /\ faceppCalls = <<>>
    /\ faceppSave = FaceppSaveIdle
    /\ everStored = {}
    /\ shots = [taken |-> 0, inFlight |-> {}, stored |-> NoShot]
    /\ KioskIdle
    /\ cons = ConsIdleValue
    /\ gateLog = <<>>
    /\ EnrollIdle
    /\ IdsIdle
    /\ ConfigIdle

\* handleCapture up to await checkImageQuality(img); the camera is rendered
\* only while capturedImage is null.
SingleCapture ==
    /\ single.pc # "left"
    /\ single.capturedImage = 0
    /\ Len(singleChecks) < MaxCaptures
    /\ single' = [single EXCEPT !.capturedImage = Len(singleChecks) + 1,
                                !.isChecking = TRUE,
                                !.qualityCheck = NoQualityCheck]
    /\ singleChecks' = Append(singleChecks, "inFlight")
    /\ UNCHANGED <<singleStaff, nonSingle>>

\* checkImageQuality(img) returned: setQualityCheck(result); setIsChecking(false)
SingleQualityReturn ==
    /\ single.pc # "left"
    /\ \E img \in 1..Len(singleChecks), valid \in BOOLEAN :
          /\ singleChecks[img] = "inFlight"
          /\ singleChecks' = [singleChecks EXCEPT ![img] = IF valid THEN "valid" ELSE "invalid"]
          /\ single' = [single EXCEPT !.qualityCheck = [isNull |-> FALSE, valid |-> valid],
                                      !.isChecking = FALSE]
    /\ UNCHANGED <<singleStaff, nonSingle>>

\* Retake button: onClick={() => setCapturedImage(null)}
SingleRetake ==
    /\ single.pc # "left"
    /\ single.capturedImage # 0
    /\ single' = [single EXCEPT !.capturedImage = 0]
    /\ UNCHANGED <<singleChecks, singleStaff, nonSingle>>

\* handleSave up to await dbService.addStaff(newStaff); the submit button is
\* disabled unless canSubmit.
SingleSave ==
    /\ single.pc = "idle"
    /\ SingleCanSubmit
    /\ single' = [single EXCEPT !.isSaving = TRUE, !.pc = "addStaff",
                                !.newStaff = single.capturedImage]
    /\ UNCHANGED <<singleChecks, singleStaff, nonSingle>>

\* addStaff returned: onNavigate(ADMIN_DASHBOARD); finally setIsSaving(false)
SingleAddStaffOk ==
    /\ single.pc = "addStaff"
    /\ singleStaff' = Append(singleStaff, [referenceImage |-> single.newStaff])
    /\ single' = [single EXCEPT !.isSaving = FALSE, !.pc = "left"]
    /\ UNCHANGED <<singleChecks, nonSingle>>

\* addStaff threw: alert(err); finally setIsSaving(false)
SingleAddStaffFail ==
    /\ single.pc = "addStaff"
    /\ single' = [single EXCEPT !.isSaving = FALSE, !.pc = "idle", !.newStaff = 0]
    /\ UNCHANGED <<singleChecks, singleStaff, nonSingle>>

SingleNext ==
    \/ SingleCapture
    \/ SingleQualityReturn
    \/ SingleRetake
    \/ SingleSave
    \/ SingleAddStaffOk
    \/ SingleAddStaffFail

SpecSingle == SingleInit /\ [][SingleNext]_vars

(***************************************************************************)
(* The captures of one angle of the multi-angle page (unnamed/part_004),   *)
(* with the photos told apart: they are numbered in the order they are     *)
(* submitted, and 0 stands for no stored photo of the angle.               *)
(***************************************************************************)
ShotsInit ==
    /\ shots = [taken |-> 0, inFlight |-> {}, stored |-> NoShot]
    /\ single = SingleMounted
    /\ singleChecks = <<>>
    /\ singleStaff = <<>>
    /\ sessions = <<>>
    /\ sessionStore = [staff |-> <<>>, images |-> <<>>]
    /\ recent = <<>>
    /\ faceppSettings = NoFaceppSettings
    /\ cachedCredentials = NoCredentials
    /\ faceppCalls = <<>>
    /\ faceppSave = FaceppSaveIdle
    /\ everStored = {}
    /\ KioskIdle
    /\ cons = ConsIdleValue
    /\ gateLog = <<>>
    /\ EnrollIdle
    /\ IdsIdle
    /\ ConfigIdle

\* handleCapture up to await checkImageQuality(img); the camera is rendered
\* while the angle has no stored photo, whether or not a check is in flight.
ShotCapture ==
    /\ shots.stored = NoShot
    /\ shots.taken < MaxShots
    /\ shots' = [shots EXCEPT !.taken = @ + 1, !.inFlight = @ \cup {shots.taken + 1}]
    /\ UNCHANGED nonShots

\* handleCapture after its await: the photo of the call replaces the photo of
\* its angle, setCapturedPhotos(prev => [...prev.filter(other angles), newPhoto])
ShotQualityReturn ==
    /\ \E img \in shots.inFlight, valid \in BOOLEAN :
          shots' = [shots EXCEPT !.inFlight = @ \ {img},
                                 !.stored = [image |-> img, isValid |-> valid]]
    /\ UNCHANGED nonShots

\* handleRetake: the stored photo of the angle is removed.
ShotRetake ==
    /\ shots.stored # NoShot
    /\ shots' = [shots EXCEPT !.stored = NoShot]
    /\ UNCHANGED nonShots

ShotsNext ==
    \/ ShotCapture
    \/ ShotQualityReturn
    \/ ShotRetake

SpecShots == ShotsInit /\ [][ShotsNext]_vars

(***************************************************************************)
(* The Face++ credentials (services/faceplusplus, kept in DEPLOYMENT.md,   *)
(* and ApiConfig.handleSaveFacepp in unnamed/part_007).  Every await of    *)
(* the code is a point where the other calls can run, so each read and     *)
(* each write of a setting is a step of its own; the code between two      *)
(* awaits runs in the step of the await that follows it.                   *)
(***************************************************************************)
\* Values of an API key and of an API secret typed into the form: other than
\* the saved ones, which are 1.
FaceppValues == {2}

\* faceset_token values the Face++ API hands out: other than the saved one.
FacesetTokens == {2}

\* Settings stores the application can start from: nothing saved, credentials
\* saved, credentials saved and the FaceSet initialized.
SeedFaceppSettings ==
    {NoFaceppSettings,
     [apiKey |-> 1, apiSecret |-> 1, facesetToken |-> 0],
     [apiKey |-> 1, apiSecret |-> 1, facesetToken |-> 1]}

FaceppInit ==
    /\ faceppSettings \in SeedFaceppSettings
    /\ cachedCredentials = NoCredentials
    /\ faceppCalls = <<>>
    /\ faceppSave = FaceppSaveIdle
    /\ everStored = {faceppSettings}
    /\ shots = [taken |-> 0, inFlight |-> {}, stored |-> NoShot]
    /\ single = SingleMounted
    /\ singleChecks = <<>>
    /\ singleStaff = <<>>
    /\ sessions = <<>>
    /\ sessionStore = [staff |-> <<>>, images |-> <<>>]
    /\ recent = <<>>
    /\ KioskIdle
    /\ cons = ConsIdleValue
    /\ gateLog = <<>>
    /\ EnrollIdle
    /\ IdsIdle
    /\ ConfigIdle

\* A call past its getCredentials: the locals apiKey, apiSecret and
\* facesetToken are gone, creds is what getCredentials returned.
Got(c, creds) ==
    [c EXCEPT !.pc = "got", !.creds = creds,
              !.apiKey = 0, !.apiSecret = 0, !.facesetToken = 0]

\* A call that has returned: only what it returned is left of it.
Done(c, returned) ==
    [c EXCEPT !.pc = "done", !.result = returned, !.creds = NoCredentials,
              !.apiKey = 0, !.apiSecret = 0, !.facesetToken = 0]

\* Some createFaceSet has returned success.
FaceSetCreated ==
    \E i \in DOMAIN faceppCalls :
        /\ faceppCalls[i].fn = "createFaceSet"
        /\ faceppCalls[i].pc = "done"
        /\ faceppCalls[i].result

\* hasFaceSet() or createFaceSet() is called: getCredentials returns the cache
\* when it holds a key and a secret, and otherwise goes on to its first await.
\* afterCreate marks the first hasFaceSet called after a createFaceSet has
\* returned success.
GetCredentials(fn) ==
    /\ Len(faceppCalls) < MaxFaceppCalls
    /\ LET hit == cachedCredentials.apiKey # 0 /\ cachedCredentials.apiSecret # 0
           first == /\ fn = "hasFaceSet"
                    /\ FaceSetCreated
                    /\ \A i \in DOMAIN faceppCalls : ~faceppCalls[i].afterCreate
       IN faceppCalls' = Append(faceppCalls,
              [fn |-> fn,
               pc |-> IF hit THEN "got" ELSE "apiKey",
               apiKey |-> 0, apiSecret |-> 0, facesetToken |-> 0,
               creds |-> IF hit THEN cachedCredentials ELSE NoCredentials,
               afterCreate |-> first, threw |-> FALSE, result |-> FALSE])
    /\ UNCHANGED <<faceppSettings, cachedCredentials, faceppSave, everStored, nonFacepp>>

\* const apiKey = await dbService.getSetting('FACEPP_API_KEY')
GetCredentialsApiKey(i) ==
    /\ faceppCalls[i].pc = "apiKey"
    /\ faceppCalls' = [faceppCalls EXCEPT ![i].apiKey = faceppSettings.apiKey,
                                          ![i].pc = "apiSecret"]
    /\ UNCHANGED <<faceppSettings, cachedCredentials, faceppSave, everStored, nonFacepp>>

\* const apiSecret = await dbService.getSetting('FACEPP_API_SECRET')
GetCredentialsApiSecret(i) ==
    /\ faceppCalls[i].pc = "apiSecret"
    /\ faceppCalls' = [faceppCalls EXCEPT ![i].apiSecret = faceppSettings.apiSecret,
                                          ![i].pc = "facesetToken"]
    /\ UNCHANGED <<faceppSettings, cachedCredentials, faceppSave, everStored, nonFacepp>>

\* const facesetToken = await dbService.getSetting('FACEPP_FACESET_TOKEN'):
\* the store answers; getCredentials resumes in GetCredentialsCache.
GetCredentialsFacesetToken(i) ==
    /\ faceppCalls[i].pc = "facesetToken"
    /\ faceppCalls' = [faceppCalls EXCEPT ![i].facesetToken = faceppSettings.facesetToken,
                                          ![i].pc = "cache"]
    /\ UNCHANGED <<faceppSettings, cachedCredentials, faceppSave, everStored, nonFacepp>>

\* if (apiKey && apiSecret) { cachedCredentials = {...}; return it }  return null
GetCredentialsCache(i) ==
    /\ faceppCalls[i].pc = "cache"
    /\ LET c == faceppCalls[i]
           read == [isNull |-> FALSE, apiKey |-> c.apiKey, apiSecret |-> c.apiSecret,
                    facesetToken |-> c.facesetToken]
       IN IF c.apiKey # 0 /\ c.apiSecret # 0
          THEN /\ cachedCredentials' = read
               /\ faceppCalls' = [faceppCalls EXCEPT ![i] = Got(c, read)]
          ELSE /\ cachedCredentials' = cachedCredentials
               /\ faceppCalls' = [faceppCalls EXCEPT ![i] = Got(c, NoCredentials)]
    /\ UNCHANGED <<faceppSettings, faceppSave, everStored, nonFacepp>>

\* A getSetting of getCredentials throws: catch, console.error, return null.
GetCredentialsCatch(i) ==
    /\ faceppCalls[i].pc \in {"apiKey", "apiSecret", "facesetToken"}
    /\ faceppCalls' = [faceppCalls EXCEPT
                           ![i] = [Got(faceppCalls[i], NoCredentials) EXCEPT !.threw = TRUE]]
    /\ UNCHANGED <<faceppSettings, cachedCredentials, faceppSave, everStored, nonFacepp>>

\* hasFaceSet: return !!creds?.facesetToken
HasFaceSetReturn(i) ==
    /\ faceppCalls[i].fn = "hasFaceSet"
    /\ faceppCalls[i].pc = "got"
    /\ faceppCalls' = [faceppCalls EXCEPT
                           ![i] = Done(faceppCalls[i], faceppCalls[i].creds.facesetToken # 0)]
    /\ UNCHANGED <<faceppSettings, cachedCredentials, faceppSave, everStored, nonFacepp>>

\* createFaceSet after getCredentials: no credentials returns success false;
\* otherwise faceset/create is posted, and it answers an error_message or
\* fails (success false) or answers a faceset_token, which is then written.
CreateFaceSetFetch(i) ==
    /\ faceppCalls[i].fn = "createFaceSet"
    /\ faceppCalls[i].pc = "got"
    /\ IF faceppCalls[i].creds.isNull
       THEN faceppCalls' = [faceppCalls EXCEPT ![i] = Done(faceppCalls[i], FALSE)]
       ELSE \/ faceppCalls' = [faceppCalls EXCEPT ![i] = Done(faceppCalls[i], FALSE)]
            \/ \E tok \in FacesetTokens :
                   faceppCalls' = [faceppCalls EXCEPT ![i].pc = "setSetting",
                                                      ![i].facesetToken = tok]
    /\ UNCHANGED <<faceppSettings, cachedCredentials, faceppSave, everStored, nonFacepp>>

\* await dbService.setSetting('FACEPP_FACESET_TOKEN', data.faceset_token):
\* the store takes the write; createFaceSet resumes in CreateFaceSetReturn.
CreateFaceSetSetSetting(i) ==
    /\ faceppCalls[i].pc = "setSetting"
    /\ faceppSettings' = [faceppSettings EXCEPT !.facesetToken = faceppCalls[i].facesetToken]
    /\ everStored' = everStored \cup {faceppSettings'}
    /\ faceppCalls' = [faceppCalls EXCEPT ![i].pc = "clear"]
    /\ UNCHANGED <<cachedCredentials, faceppSave, nonFacepp>>

\* clearCredentialsCache(); return { success: true, facesetToken }
CreateFaceSetReturn(i) ==
    /\ faceppCalls[i].pc = "clear"
    /\ cachedCredentials' = NoCredentials
    /\ faceppCalls' = [faceppCalls EXCEPT ![i] = Done(faceppCalls[i], TRUE)]
    /\ UNCHANGED <<faceppSettings, faceppSave, everStored, nonFacepp>>

\* The setSetting of createFaceSet throws: catch, return success false.
CreateFaceSetCatch(i) ==
    /\ faceppCalls[i].pc = "setSetting"
    /\ faceppCalls' = [faceppCalls EXCEPT
                           ![i] = [Done(faceppCalls[i], FALSE) EXCEPT !.threw = TRUE]]
    /\ UNCHANGED <<faceppSettings, cachedCredentials, faceppSave, everStored, nonFacepp>>

\* handleSaveFacepp with both fields filled, up to its first await.
HandleSaveFacepp(key, secret) ==
    /\ faceppSave.pc = "idle"
    /\ faceppSave.saves < MaxFaceppSaves
    /\ faceppSave' = [pc |-> "apiKey", key |-> key, secret |-> secret,
                      saves |-> faceppSave.saves + 1]
    /\ UNCHANGED <<faceppSettings, cachedCredentials, faceppCalls, everStored, nonFacepp>>

\* await dbService.setSetting('FACEPP_API_KEY', faceppKey)
SaveFaceppApiKey ==
    /\ faceppSave.pc = "apiKey"
    /\ faceppSettings' = [faceppSettings EXCEPT !.apiKey = faceppSave.key]
    /\ everStored' = everStored \cup {faceppSettings'}
    /\ faceppSave' = [faceppSave EXCEPT !.pc = "apiSecret"]
    /\ UNCHANGED <<cachedCredentials, faceppCalls, nonFacepp>>

\* await dbService.setSetting('FACEPP_API_SECRET', faceppSecret): the store
\* takes the write; handleSaveFacepp resumes in SaveFaceppClear.
SaveFaceppApiSecret ==
    /\ faceppSave.pc = "apiSecret"
    /\ faceppSettings' = [faceppSettings EXCEPT !.apiSecret = faceppSave.secret]
    /\ everStored' = everStored \cup {faceppSettings'}
    /\ faceppSave' = [faceppSave EXCEPT !.pc = "clear"]
    /\ UNCHANGED <<cachedCredentials, faceppCalls, nonFacepp>>

\* clearCredentialsCache(); setFaceppStatus('SUCCESS')
SaveFaceppClear ==
    /\ faceppSave.pc = "clear"
    /\ cachedCredentials' = NoCredentials
    /\ faceppSave' = [faceppSave EXCEPT !.pc = "idle"]
    /\ UNCHANGED <<faceppSettings, faceppCalls, everStored, nonFacepp>>

\* A setSetting of handleSaveFacepp throws: catch, setFaceppStatus('ERROR').
SaveFaceppCatch ==
    /\ faceppSave.pc \in {"apiKey", "apiSecret"}
    /\ faceppSave' = [faceppSave EXCEPT !.pc = "idle"]
    /\ UNCHANGED <<faceppSettings, cachedCredentials, faceppCalls, everStored, nonFacepp>>

FaceppNext ==
    \/ \E fn \in {"hasFaceSet", "createFaceSet"} : GetCredentials(fn)
    \/ \E i \in DOMAIN faceppCalls :
          \/ GetCredentialsApiKey(i)
          \/ GetCredentialsApiSecret(i)
          \/ GetCredentialsFacesetToken(i)
          \/ GetCredentialsCache(i)
          \/ GetCredentialsCatch(i)
          \/ HasFaceSetReturn(i)
          \/ CreateFaceSetFetch(i)
          \/ CreateFaceSetSetSetting(i)
          \/ CreateFaceSetReturn(i)
          \/ CreateFaceSetCatch(i)
    \/ \E key \in FaceppValues, secret \in FaceppValues : HandleSaveFacepp(key, secret)
    \/ SaveFaceppApiKey
    \/ SaveFaceppApiSecret
    \/ SaveFaceppClear
    \/ SaveFaceppCatch

SpecFacepp == FaceppInit /\ [][FaceppNext]_vars

(***************************************************************************)
(* Properties of the kiosk, checked under SpecKiosk.                       *)
(***************************************************************************)

\* C1: once no call of handleLiveCapture is in flight, the check_ins table holds
\* exactly one row per resolution that set the kiosk to SUCCESS: every SUCCESS
\* resolution appended one check-in and no other resolution appended any.
C1_CheckInsEqualSuccesses ==
    Len(scans) = 0 => Len(checkIns) = stats.successes

\* C2: while a call of handleLiveCapture has passed the guard and has not yet
\* finished (its await of logCheckIn included), the guard lets no other capture
\* pass.
C2_GuardClosedWhileInFlight ==
    Len(scans) > 0 => ~GuardPasses

\* C3: a comparison the oracle did not answer never counts as a qualifying
\* match: the qualifying results of the candidate under evaluation are exactly
\* the comparisons the oracle answered with match = true at or above the
\* threshold, the result of a failed comparison is a non-match, and a scan sets
\* SUCCESS only when the oracle answered with a qualifying result (searchFace
\* with success = true and a hit), so a scan whose every oracle call fails does
\* not resolve SUCCESS.
C3_OracleFailureNeverAccepts ==
    \A s \in 1..Len(scans) :
        LET sc == scans[s]
        IN  /\ sc.pc = "compare" =>
                /\ Len(ValidMatches(sc.results, KioskConfidenceThreshold)) = sc.candQualified
                /\ \A i \in 1..Len(sc.results) :
                      sc.results[i].explanation = "AI Service Unavailable"
                          => ~sc.results[i].match /\ sc.results[i].confidence = 0
            /\ sc.pc = "logCheckIn" => sc.candQualified >= 1

\* C3 witness: a candidate with several reference images whose first comparison
\* failed (service unavailable) and whose second qualified: one counted.
C3_Witness ==
    \E s \in 1..Len(scans) :
        /\ scans[s].pc = "compare"
        /\ Len(scans[s].results) = 2
        /\ scans[s].results[1].explanation = "AI Service Unavailable"
        /\ scans[s].candQualified = 1

\* C4: the pairwise kiosk compares candidates in staff-list order and stops at
\* the first candidate whose consensus is a match: while a scan is comparing no
\* candidate has matched yet and the candidates compared so far are exactly the
\* first ones of the list up to the current one; a scan that set SUCCESS carries
\* the first matching candidate and compared no candidate after it.
C4_EarlyExit ==
    \A s \in 1..Len(scans) :
        LET sc == scans[s]
        IN  /\ sc.pc = "compare" =>
                sc.firstMatch = 0 /\ sc.calledCands = 1..sc.cand
            /\ (sc.pc = "logCheckIn" /\ kiosk.version = "pairwise") =>
                /\ sc.found = sc.firstMatch
                /\ sc.calledCands = 1..sc.found
                /\ stats.started = 1 => result.isMatch /\ result.staffMember = sc.found

\* C4 witness: SUCCESS on the first of two candidates; the second was never compared.
C4_Witness ==
    \E s \in 1..Len(scans) :
        /\ kiosk.version = "pairwise"
        /\ scans[s].pc = "logCheckIn"
        /\ scans[s].found = 1
        /\ Len(staffList) = 2
        /\ scans[s].calledCands = {1}

(***************************************************************************)
(* Properties of verifyIdentityWithConsensus, checked under SpecConsensus. *)
(***************************************************************************)
Returned == cons.pc = "returned"

\* The confidenceThreshold and requiredMatches the returned call ran with.
ThresholdOfCall == EffectiveThreshold(cons.args.thrGiven, cons.args.thr)
RequiredOfCall == EffectiveRequiredMatches(cons.args.reqGiven, cons.args.req)

\* The positions of the results with match = true and confidence >= threshold.
QualifyingPositions ==
    {i \in 1..Len(cons.results) :
        cons.results[i].match /\ cons.results[i].confidence >= ThresholdOfCall}

C6_MeanConfidence ==
    LET RECURSIVE SumAt(_)
        SumAt(ps) == IF ps = {} THEN 0
                     ELSE LET i == CHOOSE j \in ps : TRUE
                          IN  cons.results[i].confidence + SumAt(ps \ {i})
        all == 1..Len(cons.results)
        over == IF QualifyingPositions # {} THEN QualifyingPositions ELSE all
    IN  (Returned /\ cons.args.nRefs > 0) =>
            /\ cons.ret.confidence.den > 0
            /\ cons.ret.confidence.num * Cardinality(over) =
                   SumAt(over) * cons.ret.confidence.den
            /\ ( /\ [i \in all |-> <<cons.results[i].match, cons.results[i].confidence>>]
                      = <<<<TRUE, 90>>, <<FALSE, 60>>, <<TRUE, 88>>>>
                 /\ ThresholdOfCall = 85
                 /\ RequiredOfCall = 2 )
               => cons.ret.match /\ FracEq(cons.ret.confidence, FracOfInt(89))

\* C6 witness: the call of the example has returned.
C6_Witness ==
    /\ Returned
    /\ cons.args.nRefs = 3
    /\ [i \in 1..3 |-> <<cons.results[i].match, cons.results[i].confidence>>]
          = <<<<TRUE, 90>>, <<FALSE, 60>>, <<TRUE, 88>>>>
    /\ ThresholdOfCall = 85
    /\ RequiredOfCall = 2
    /\ cons.ret.match

\* C7, as stated: with requiredMatches left to the default of the consensus
\* engine, a single qualifying result for a candidate with exactly one reference
\* photo produces a match.
C7_DefaultMatchesSingleReference ==
    (Returned /\ ~cons.args.reqGiven /\ cons.args.nRefs = 1 /\ QualifyingPositions = {1})
        => cons.ret.match

\* C7, amended: the policy (2 with three or more reference photos, 1 otherwise)
\* is applied by the kiosk, which passes requiredMatches on every call, and with
\* it a single qualifying result for a candidate with one reference photo
\* produces a match; the default of the engine's own parameter is 2 whatever the
\* number of photos, so a call that omits requiredMatches never matches on one
\* reference photo.
C7_PolicyIsTheKiosks ==
    (Returned /\ cons.args.nRefs = 1) =>
        /\ (cons.args.caller = "kiosk" /\ QualifyingPositions = {1}) => cons.ret.match
        /\ ~cons.args.reqGiven => ~cons.ret.match
        /\ cons.args.caller = "kiosk" => RequiredOfCall = 1

\* C7 witness: a kiosk call with one reference photo returned a match.
C7_Witness ==
    /\ Returned
    /\ cons.args.caller = "kiosk"
    /\ cons.args.nRefs = 1
    /\ QualifyingPositions = {1}
    /\ cons.ret.match
    /\ cons.ret.matchCount = 1

(***************************************************************************)
(* Property of the quality gate, checked under SpecGate.                   *)
(***************************************************************************)

\* C8: checkImageQuality never throws; when the oracle call fails (unparsable
\* response, network or API error, missing credential) it returns valid = true
\* with a reason that flags the check as skipped, and when the oracle answers
\* its valid and reason are returned unchanged.
C8_GateFailsOpen ==
    \A i \in 1..Len(gateLog) :
        LET o == gateLog[i].outcome
            r == gateLog[i].ret
        IN  /\ ~r.threw
            /\ o.kind = "answer" => r.valid = o.valid /\ r.reason = o.reason
            /\ o.kind # "answer" =>
                  /\ r.valid
                  /\ r.reason \in {"AI Check Skipped (Parse Error)",
                                   "AI Check Skipped (Network/API Error)"}

\* C8 witness: a call with no credential, a call with an unparsable response and
\* a call the oracle answered with a rejection have returned.
C8_Witness ==
    /\ \E i \in 1..Len(gateLog) : gateLog[i].outcome.kind = "noCredential" /\ gateLog[i].ret.valid
    /\ \E i \in 1..Len(gateLog) : gateLog[i].outcome.kind = "parseError" /\ gateLog[i].ret.valid
    /\ \E i \in 1..Len(gateLog) : gateLog[i].outcome.kind = "answer" /\ ~gateLog[i].ret.valid

(***************************************************************************)
(* Properties of the multi-angle enrollment, checked under SpecEnroll.     *)
(***************************************************************************)
\* Angle a has a stored photo with isValid.
HasValidPhoto(a) ==
    \E i \in 1..Len(capturedPhotos) :
        capturedPhotos[i].angleType = a /\ capturedPhotos[i].isValid

EveryAngleValid == HasValidPhoto("front") /\ HasValidPhoto("left") /\ HasValidPhoto("right")

\* C9, as stated: finalize is enabled iff every angle (front, left, right) has a
\* stored photo with isValid.
C9_FinalizeIffEveryAngleValid ==
    Mounted => (CanSubmit <=> EveryAngleValid)

\* C9, amended: finalize is enabled iff every angle (front, left, right) has a
\* stored photo with isValid and, besides, the id is allocated, the name has a
\* character other than a blank and no save is in progress; a step that removes
\* the stored photo of an angle leaves finalize disabled, and it stays disabled
\* while an angle has no valid photo.
C9_FinalizeEnabled ==
    /\ [](CanSubmit <=>
            /\ EveryAngleValid
            /\ formData.id \notin {"Generating...", "ERROR"}
            /\ \E i \in 1..Len(formData.fullName) : formData.fullName[i] # " "
            /\ ~isSaving)
    /\ [][(\E a \in {"front", "left", "right"} : HasValidPhoto(a) /\ ~HasValidPhoto(a)')
            => ~CanSubmit']_vars

\* C9 witness: finalize is enabled: three valid photos, id and name ready, no save in flight.
C9_Witness ==
    /\ Mounted
    /\ CanSubmit
    /\ Len(capturedPhotos) = 3
    /\ save.pc = "idle"

\* C10: every insert made by addStaffImages holds exactly one photo for each
\* required angle, and each of them was returned valid by the quality gate.
C10_OnePhotoPerAngle ==
    \A b \in 1..Len(staffImages) :
        LET images == staffImages[b].images
        IN  /\ Len(images) = NumAngles
            /\ \A a \in {"front", "left", "right"} :
                  Cardinality({i \in 1..Len(images) : images[i].angleType = a}) = 1
            /\ \A i \in 1..Len(images) : images[i].gate

\* C10 witness: the images were written after the operator had removed one of
\* the photos on the page while the save was in flight.
C10_Witness ==
    /\ Len(staffImages) = 1
    /\ Len(staffImages[1].images) = 3
    /\ Len(capturedPhotos) < 3

\* The stored photos of the angles other than a, in their order.
PhotosNotOf(photos, a) == SelectSeq(photos, LAMBDA p : p.angleType # a)

\* The call of handleCapture made on angle index i returns in this step.
CheckReturns(i) == checks'[i] = checks[i] - 1

\* C11: a step that changes the current angle (progress buttons, Previous,
\* Next or the auto-advance timeout) leaves capturedPhotos as it was: no stored
\* photo is removed or altered.
C11_NavigationKeepsPhotos ==
    [][currentAngleIndex' # currentAngleIndex => capturedPhotos' = capturedPhotos]_vars

\* C11 witness: the accepted front photo is still stored after the auto-advance
\* fired and the operator moved on to the last angle.
C11_Witness ==
    /\ Mounted
    /\ Pending = 0
    /\ currentAngleIndex = 2
    /\ Len(capturedPhotos) = 1
    /\ capturedPhotos[1].angleType = "front"
    /\ capturedPhotos[1].isValid

\* C12: a step that removes a stored photo (handleRetake) removes the photo of
\* the selected angle and nothing else: the photos of the other angles, with
\* their validity and reason, and the current angle index are unchanged.
C12_RetakeRemovesOnlyCurrent ==
    [][Len(capturedPhotos') < Len(capturedPhotos) =>
          LET a == PhotoAngles[currentAngleIndex + 1]
          IN  /\ currentAngleIndex' = currentAngleIndex
              /\ \A i \in 1..Len(capturedPhotos') : capturedPhotos'[i].angleType # a
              /\ PhotosNotOf(capturedPhotos', a) = PhotosNotOf(capturedPhotos, a)
              /\ Len(capturedPhotos') = Len(PhotosNotOf(capturedPhotos, a))]_vars

\* C12 witness: a save was started with three photos and the operator has since
\* retaken the front one; the other two are still there.
C12_Witness ==
    /\ save.pc = "addStaff"
    /\ Len(save.photos) = 3
    /\ Len(capturedPhotos) = 2
    /\ \A i \in 1..2 : capturedPhotos[i].angleType # "front" /\ capturedPhotos[i].isValid
    /\ Pending = 0

\* C13: when the quality check of a capture submitted on angle index i returns,
\* the photo is stored under angle i whatever angle is selected by then, and the
\* selected angle does not change in that step; if the photo is valid and i is
\* not the last index one timeout for index i + 1 is set, otherwise none; a
\* timeout that fires sets the current angle to the index it was set for.
C13_StoreAndAdvance ==
    [][ /\ \A i \in 0..2 :
              CheckReturns(i) =>
                  LET n == Len(capturedPhotos')
                      stored == capturedPhotos'[n]
                  IN  /\ n > 0
                      /\ stored.angleType = PhotoAngles[i + 1]
                      /\ currentAngleIndex' = currentAngleIndex
                      /\ IF stored.isValid /\ i < 2
                         THEN advTimers' = [advTimers EXCEPT ![i + 1] = @ + 1]
                         ELSE advTimers' = advTimers
        /\ \A t \in 1..2 :
              advTimers'[t] < advTimers[t] => currentAngleIndex' = t ]_vars

\* C13 witness: the front capture was accepted while the operator had already
\* selected the last angle: it is stored under front and the timeout for the
\* second angle is pending.
C13_Witness ==
    /\ Mounted
    /\ currentAngleIndex = 2
    /\ Len(capturedPhotos) = 1
    /\ capturedPhotos[1].angleType = "front"
    /\ capturedPhotos[1].isValid
    /\ advTimers[1] = 1
    /\ checks[0] = 0

\* The camera (and with it the capture button) is rendered.
CameraShown == ~HasCurrentCapturedPhoto

NumbersOf(ids) ==
    {ParseInt(StripNonDigits(id)) : id \in {x \in ids : \E k \in 1..Len(x) : IsDigit(x[k])}}

LargestOf(nums) == IF nums = {} THEN 0 ELSE CHOOSE m \in nums : \A n \in nums : m >= n

\* C15: every call of getNextId returns 'FG' followed by the decimal digits of
\* max + 1, padded on the left with zeros to at least 4 digits, where max is
\* the largest number got by stripping the non-digits of each id of the table
\* (0 when no id has a digit); the empty table gives FG0001, the table
\* {FG0001, FG0007, FG0003} gives FG0008 and {AB12, garbage} gives FG0013.
C15_GetNextId ==
    /\ \A i \in 1..Len(issued) :
        LET ret == issued[i].ret
            digits == SubSeq(ret, 3, Len(ret))
        IN  /\ Len(ret) >= 6
            /\ ret[1] = "F" /\ ret[2] = "G"
            /\ \A k \in 1..Len(digits) : IsDigit(digits[k])
            /\ ParseInt(digits) = LargestOf(NumbersOf(issued[i].table)) + 1
            /\ Len(digits) > 4 => digits[1] # "0"
    /\ GetNextId({}) = <<"F", "G", "0", "0", "0", "1">>
    /\ GetNextId({<<"F", "G", "0", "0", "0", "1">>, <<"F", "G", "0", "0", "0", "7">>,
                  <<"F", "G", "0", "0", "0", "3">>}) = <<"F", "G", "0", "0", "0", "8">>
    /\ GetNextId({<<"A", "B", "1", "2">>, <<"g", "a", "r", "b", "a", "g", "e">>})
           = <<"F", "G", "0", "0", "1", "3">>

\* C15 witness: getNextId was called on the table {AB12, garbage} and returned
\* FG0013.
C15_Witness ==
    \E i \in 1..Len(issued) :
        /\ issued[i].table = {<<"A", "B", "1", "2">>, <<"g", "a", "r", "b", "a", "g", "e">>}
        /\ issued[i].ret = <<"F", "G", "0", "0", "1", "3">>

\* C16: every id returned by getNextId differs from every id a staff row was
\* ever stored under before the call, deleted rows included, and its number is
\* greater than the number of each of them.
C16_IdsNeverReused ==
    \A i \in 1..Len(issued) :
        /\ issued[i].ret \notin issued[i].before
        /\ \A n \in NumbersOf(issued[i].before) :
              ParseInt(StripNonDigits(issued[i].ret)) > n

(***************************************************************************)
(* Properties of the credential cache, checked under SpecConfig.           *)
(***************************************************************************)

\* C17: every call of getClient that started after a configuration change
\* completed (the setting written and the cache cleared), with no other change
\* begun before the call returned and no failure of its read of the settings,
\* used the credential that configuration designates, whatever calls of
\* getClient were in flight during the change.
C17_NewCredentialAfterChange ==
    \A i \in 1..Len(uses) :
        (uses[i].afterChange /\ ~uses[i].dbFailed) => uses[i].key = uses[i].configured

(***************************************************************************)
(* Properties of the kiosk's choice of oracle, of the indexed branch and   *)
(* of the empty staff list, checked under SpecKiosk.                       *)
(***************************************************************************)

\* A capture passes the guard in this step.
CaptureStarts == stats'.started = stats.started + 1

\* C18: a capture taken with staff loaded starts an indexed search when the
\* FaceSet is configured and otherwise starts the pairwise comparison of the
\* first candidate, so that a probe the pairwise oracle matches can resolve
\* SUCCESS.
C18_PairwiseFallback ==
    [][(CaptureStarts /\ Len(staffList) > 0) =>
          /\ Len(scans') = Len(scans) + 1
          /\ scans'[Len(scans')].pc = IF kiosk.faceppAvailable THEN "search" ELSE "compare"
          /\ mode' = "SCANNING"]_vars

\* The threshold of the strictest operating point a search result offers: the
\* one of the lowest false-accept rate, 1e-5.
StrictestThreshold(th) == IF th.present THEN th.e5 ELSE FallbackSearchThreshold

\* The top hit of a search result meets the strictest threshold and resolves to
\* an enrolled staff member.
TopHitAcceptable(list, sr) ==
    /\ sr.success
    /\ Len(sr.matches) > 0
    /\ sr.matches[1].confidence >= StrictestThreshold(sr.thresholds)
    /\ FindStaff(list, sr.matches[1]) # 0

\* C19: the indexed branch accepts exactly when the top hit of the search result
\* has a confidence at or above the strictest threshold the result offers and
\* resolves to an enrolled staff member by face token or id: for every result
\* the search of a scan in flight may return, a staff member is accepted iff
\* the top hit is acceptable in that sense.
C19_StrictestThreshold ==
    \A s \in 1..Len(scans) :
        scans[s].pc = "search" =>
            \A sr \in SearchResults(Len(staffList)) :
                SearchMatch(staffList, sr) # 0 <=> TopHitAcceptable(staffList, sr)

\* C20: a capture taken with an empty staff list resolves FAILURE in the same
\* step with the message "No staff database found.", starts no oracle call
\* (no scan), appends no check-in and sets the timeout of the display window;
\* when that timeout fires the kiosk is IDLE.
C20_NoStaff ==
    [][ /\ (CaptureStarts /\ Len(staffList) = 0) =>
              /\ mode' = "FAILURE"
              /\ ~result'.isNull /\ ~result'.isMatch
              /\ result'.message.text = "No staff database found."
              /\ scans' = scans
              /\ checkIns' = checkIns
              /\ timers'.t3 = timers.t3 + 1
        /\ timers'.t3 < timers.t3 => mode' = "IDLE" ]_vars

\* C20 witness: one capture on a kiosk without staff: FAILURE with the no-staff
\* message, nothing in flight, no check-in, the display timeout pending.
C20_Witness ==
    /\ ~loadingStaff
    /\ Len(staffList) = 0
    /\ stats.started = 1
    /\ mode = "FAILURE"
    /\ result.message.text = "No staff database found."
    /\ scans = <<>>
    /\ checkIns = <<>>
    /\ timers.t3 = 1

(***************************************************************************)
(* Diagnostics of a failed scan, checked under SpecKiosk.                  *)
(***************************************************************************)

\* C21: for every scan in flight, the failure the kiosk would resolve with when
\* the oracle is unavailable (the search fails; the comparison throws) carries
\* a message different from the failure it would resolve with when the oracle
\* answers and nobody matches.
C21_UnavailableIsDistinguished ==
    \A s \in 1..Len(scans) :
        /\ scans[s].pc = "search" =>
              \A sr1, sr2 \in SearchResults(Len(staffList)) :
                  (~sr1.success /\ sr2.success /\ SearchMatch(staffList, sr2) = 0) =>
                      SearchResolution(staffList, sr1).message
                          # SearchResolution(staffList, sr2).message
        /\ scans[s].pc = "compare" =>
              LET down == VerifyIdentityWithConsensus(
                              <<VerifyIdentityWithGemini(FailedCall("networkError"))>>,
                              1, KioskConfidenceThreshold)
                  noMatch == VerifyIdentityWithConsensus(
                              <<VerifyIdentityWithGemini(Answer(FALSE, 60))>>,
                              1, KioskConfidenceThreshold)
              IN  CompareResolution(0, FracOfInt(0), down).message
                      # CompareResolution(0, FracOfInt(0), noMatch).message

(***************************************************************************)
(* A missing credential, checked under SpecGate.                           *)
(***************************************************************************)

\* C22: a call of checkImageQuality made without any credential (getClient
\* throws before a request is sent) returns a reason different from the one of
\* a call whose request failed on the network, and so does verifyIdentityWithGemini
\* with its explanation.
C22_MissingCredentialIsDistinguished ==
    /\ \A i, j \in 1..Len(gateLog) :
          (gateLog[i].outcome.kind = "noCredential" /\ gateLog[j].outcome.kind = "networkError")
              => gateLog[i].ret.reason # gateLog[j].ret.reason
    /\ (Len(gateLog) > 0) =>
          VerifyIdentityWithGemini(FailedCall("noCredential")).explanation
              # VerifyIdentityWithGemini(FailedCall("networkError")).explanation

(***************************************************************************)
(* Oracle calls outstanding, checked under SpecKioskBusy.                  *)
(***************************************************************************)

\* The scans whose oracle call (a comparison or a search) has not returned.
OracleCallsOutstanding == {s \in 1..Len(scans) : scans[s].pc \in {"compare", "search"}}

\* C23: at most one oracle call is outstanding at any moment.
C23_OneOracleCallAtATime ==
    Cardinality(OracleCallsOutstanding) <= 1

(***************************************************************************)
(* Progress of the kiosk, checked under SpecKioskFair.                     *)
(***************************************************************************)

\* C24: provided every awaited call returns or throws and every timeout fires,
\* a kiosk in SCANNING comes to SUCCESS or FAILURE, every scan in flight comes
\* to its end, and a kiosk that is not IDLE comes back to IDLE.
C24_ScanResolvesAndIdles ==
    /\ (mode = "SCANNING") ~> (mode \in {"SUCCESS", "FAILURE"})
    /\ (Len(scans) > 0) ~> (Len(scans) = 0)
    /\ (mode # "IDLE") ~> (mode = "IDLE")

\* C24 witness: a capture was accepted, its scan resolved and ended, and the
\* kiosk is IDLE again with the result cleared by the timeout.
C24_Witness ==
    /\ stats.started = 1
    /\ stats.successes = 1
    /\ Len(checkIns) = 1
    /\ scans = <<>>
    /\ mode = "IDLE"
    /\ result = NullResult
    /\ timers = [t3 |-> 0, t5 |-> 0]

(***************************************************************************)
(* The check-in table, checked under SpecKiosk.                            *)
(***************************************************************************)

RowsOf(rows) == {rows[i] : i \in 1..Len(rows)}

\* C26: every call of getRecentCheckIns(limit) returns at most limit events,
\* ordered from the newest timestamp to the oldest; it returns limit events
\* when the table holds that many and all of them otherwise, each a different
\* row of the table, and no row left out is newer than a row returned.
C26_RecentCheckIns ==
    \A c \in 1..Len(recent) :
        LET r == recent[c]
            n == IF Len(r.table) < r.limit THEN Len(r.table) ELSE r.limit
        IN  /\ Len(r.ret) <= r.limit
            /\ Len(r.ret) = n
            /\ \A i \in 1..(Len(r.ret) - 1) : r.ret[i].timestamp >= r.ret[i + 1].timestamp
            /\ RowsOf(r.ret) \subseteq RowsOf(r.table)
            /\ Cardinality(RowsOf(r.ret)) = Len(r.ret)
            /\ \A left \in RowsOf(r.table) \ RowsOf(r.ret) :
                  \A kept \in RowsOf(r.ret) : left.timestamp <= kept.timestamp

\* C26 witness: a call with a limit below the number of stored events, on a
\* table whose newest event was not the last one stored, returned that event
\* first and left an older one out.
C26_Witness ==
    \E c \in 1..Len(recent) :
        LET r == recent[c]
        IN  /\ r.limit = 2
            /\ Len(r.table) = 3
            /\ r.table[1].timestamp > r.table[3].timestamp
            /\ r.table[2].timestamp < r.table[3].timestamp
            /\ r.ret = <<r.table[1], r.table[3]>>

(***************************************************************************)
(* The confidence of a recorded check-in, checked under SpecKiosk.         *)
(***************************************************************************)

\* C27: every event in the check-in table carries a confidence score between
\* 0 and 100, whether it is the mean of the qualifying comparisons (pairwise
\* page) or the confidence of the top hit of the search (indexed page); the
\* oracles of the model answer with confidences between 0 and 100.
C27_ConfidenceInRange ==
    \A i \in 1..Len(checkIns) :
        LET score == checkIns[i].confidenceScore
        IN  /\ score.den > 0
            /\ 0 <= score.num
            /\ score.num <= 100 * score.den

\* C27 witness: the pairwise page recorded an event whose score is the mean
\* of the confidences of two qualifying comparisons.
C27_Witness ==
    /\ kiosk.version = "pairwise"
    /\ Len(checkIns) > 0
    /\ checkIns[1].confidenceScore = Frac(180, 2)

(***************************************************************************)
(* The explanation of a consensus, checked under SpecConsensus.            *)
(***************************************************************************)

\* C28: the explanation of every returned result, accepted or rejected, embeds
\* the number of qualifying references first and the number of references
\* second, and the first is the returned matchCount.
C28_ExplanationEmbedsCounts ==
    cons.pc = "returned" =>
        /\ Len(cons.ret.explanation.numbers) >= 2
        /\ cons.ret.explanation.numbers[1] = cons.ret.matchCount
        /\ cons.ret.explanation.numbers[2] = cons.args.nRefs

(***************************************************************************)
(* Validation before the enrollment is stored, checked under SpecEnroll.   *)
(***************************************************************************)

\* The ids the form shows while no id is allocated.
UnallocatedIds == {"Generating...", "ERROR"}

\* The record handleSave is storing has a name that is not blank, an
\* allocated id and a valid photo of every angle.
SavedFormIsValid ==
    /\ Len(Trim(save.name)) > 0
    /\ save.id \notin UnallocatedIds
    /\ AllPhotosValid(save.photos)

\* C29: handleSave gets to its store writes only from a form whose name is
\* not blank, whose id is allocated and whose angles all hold a valid photo;
\* every write to the staff table or to staff_images is made by such a call
\* and stores the id of that form, and no unallocated id is ever in the table.
\* (Finalizing calls no oracle: the quality gate is called by captures only.)
C29_NoWriteFromInvalidForm ==
    /\ [](save.pc \in {"addStaff", "addStaffImages"} => SavedFormIsValid)
    /\ [](staffTable \cap UnallocatedIds = {})
    /\ [][(save.pc = "idle" /\ save'.pc = "addStaff") =>
             /\ IsIdReady /\ IsNameReady /\ AllPhotosValid(capturedPhotos)
             /\ save'.id = formData.id /\ save'.name = formData.fullName
             /\ save'.photos = capturedPhotos]_vars
    /\ [][(staffTable' # staffTable \/ staffImages' # staffImages) =>
             /\ save.pc \in {"addStaff", "addStaffImages"}
             /\ SavedFormIsValid
             /\ staffTable' \subseteq staffTable \cup {save.id}
             /\ gateLog' = gateLog /\ checks' = checks]_vars

\* C29 witness: every angle holds a valid photo and the id is allocated, but
\* the name typed is a blank; nothing is being stored and nothing was.
C29_Witness ==
    /\ AllPhotosValid(capturedPhotos)
    /\ IsIdReady
    /\ formData.fullName = <<" ">>
    /\ save.pc = "idle"
    /\ staffTable = {}
    /\ staffImages = <<>>

(***************************************************************************)
(* A failure of the second write, checked under SpecEnroll.                *)
(***************************************************************************)

\* The staff ids that have a row in staff_images.
IdsWithImages == {staffImages[i].staffId : i \in 1..Len(staffImages)}

\* C30: when addStaffImages fails, handleSave has already stored the staff row
\* (addStaff succeeded); the failure leaves that row in the staff table with
\* no row of staff_images, shows the error in an alert, and neither that step
\* nor the dismissal of the alert removes the row.
C30_PartialEnrollmentIsKept ==
    /\ [](save.pc = "addStaffImages" => save.id \in staffTable)
    /\ [][(save.pc = "addStaffImages" /\ save'.pc \notin {"addStaffImages", "left"}) =>
             /\ save'.pc = "alert"
             /\ save'.alert = "Error adding staff images"
             /\ staffTable' = staffTable /\ staffImages' = staffImages
             /\ save'.id \in staffTable' \ IdsWithImages']_vars
    /\ [][save.pc = "alert" => (staffTable' = staffTable /\ staffImages' = staffImages)]_vars
    /\ [][staffTable \subseteq staffTable']_vars

\* C30 witness: the alert of a failed addStaffImages was dismissed; the staff
\* table holds the row of the enrollment and staff_images holds nothing.
C30_Witness ==
    /\ save.pc = "idle"
    /\ ~isSaving
    /\ staffTable = {"FG0001"}
    /\ staffImages = <<>>

(***************************************************************************)
(* Two sessions and one id, checked under SpecSessions.                    *)
(***************************************************************************)

\* C31: two sessions that fetched their id from the same staff table hold the
\* same id (nothing is reserved); the staff table never holds two rows with
\* one id; a session whose addStaff was refused wrote no row and no images,
\* and every row of staff_images was written by the session that wrote the
\* staff row of that id.
C31_SameIdOneRecord ==
    /\ \A s, u \in 1..MaxSessions :
          (sessions[s].pc # "mount" /\ sessions[u].pc # "mount"
             /\ sessionStore.staff \in SeedStaff)
              => sessions[s].id = sessions[u].id
    /\ \A i, j \in 1..Len(sessionStore.staff) :
          sessionStore.staff[i].id = sessionStore.staff[j].id => i = j
    /\ \A k \in 1..Len(sessionStore.images) :
          \E i \in 1..Len(sessionStore.staff) :
              /\ sessionStore.staff[i].id = sessionStore.images[k].staffId
              /\ sessionStore.staff[i].session = sessionStore.images[k].session
    /\ \A s \in 1..MaxSessions :
          sessions[s].refused =>
              /\ \A i \in 1..Len(sessionStore.staff) : sessionStore.staff[i].session # s
              /\ \A k \in 1..Len(sessionStore.images) : sessionStore.images[k].session # s

\* C31 witness: both sessions fetched the same id; one stored its row and its
\* images and left, the other submitted and was refused.
C31_Witness ==
    /\ sessions[1].id = sessions[2].id
    /\ sessions[1].pc = "left"
    /\ sessions[2].refused
    /\ Len(sessionStore.images) = 1

(***************************************************************************)
(* The photo stored by the single-photo page, checked under SpecSingle.    *)
(***************************************************************************)

\* C32: every staff row stored by the single-photo page carries a photo whose
\* own quality check returned valid.
C32_StoredPhotoWasValidated ==
    \A i \in 1..Len(singleStaff) :
        singleChecks[singleStaff[i].referenceImage] = "valid"

(***************************************************************************)
(* Leaving SCANNING, checked under SpecKiosk.                              *)
(***************************************************************************)

\* C33: the kiosk leaves SCANNING only for SUCCESS or FAILURE, and while it is
\* in SCANNING no step clears a result that is shown.
C33_LeavesScanningOnlyByResolving ==
    [][mode = "SCANNING" =>
          /\ mode' \in {"SCANNING", "SUCCESS", "FAILURE"}
          /\ (result # NullResult => result' # NullResult)]_vars

(***************************************************************************)
(* What a pairwise SUCCESS rests on, checked under SpecKiosk.              *)
(***************************************************************************)

\* C34: on the pairwise page, a scan that resolved SUCCESS (it stands at its
\* logCheckIn call) counted, among the comparisons of the member it matched,
\* at least requiredMatches and at least one answer with match = true and a
\* confidence of 85 or more, and its confidence is 85 or more; so is the
\* confidence score of every check-in the page recorded.
C34_SuccessRestsOnQualifyingResults ==
    kiosk.version = "pairwise" =>
        /\ \A s \in 1..Len(scans) :
              scans[s].pc = "logCheckIn" =>
                  /\ scans[s].found = scans[s].cand
                  /\ scans[s].candQualified >=
                        RequiredMatchesFor(ReferenceCount(staffList[scans[s].found]))
                  /\ scans[s].candQualified >= 1
                  /\ scans[s].confidence.num >=
                        KioskConfidenceThreshold * scans[s].confidence.den
        /\ \A i \in 1..Len(checkIns) :
              checkIns[i].confidenceScore.num >=
                  KioskConfidenceThreshold * checkIns[i].confidenceScore.den

\* C34 witness: a pairwise scan resolved SUCCESS for a member with three
\* reference images, two of which qualified, and its check-in is recorded.
C34_Witness ==
    /\ kiosk.version = "pairwise"
    /\ Len(checkIns) = 1
    /\ \E i \in 1..Len(staffList) :
          /\ staffList[i].id = checkIns[1].staffId
          /\ ReferenceCount(staffList[i]) = 3
    /\ checkIns[1].confidenceScore = Frac(180, 2)

(***************************************************************************)
(* Two captures of one angle in flight, checked under SpecShots.           *)
(***************************************************************************)

\* C35: once no quality check is in flight, the photo stored for the angle is
\* the capture submitted last, in whatever order the checks returned.
C35_LastSubmittedIsStored ==
    (shots.inFlight = {} /\ shots.stored # NoShot) => shots.stored.image = shots.taken

(***************************************************************************)
(* Auto-advance against the operator's selection, checked under SpecEnroll.*)
(***************************************************************************)

\* C36: an auto-advance timeout that fires when the selected angle is no longer
\* the angle of its capture (the operator selected another one meanwhile)
\* leaves the selected angle as it is.
C36_AutoAdvanceKeepsSelection ==
    [][\A t \in 1..2 :
          (advTimers'[t] < advTimers[t] /\ currentAngleIndex # t - 1)
              => currentAngleIndex' = currentAngleIndex]_vars

(***************************************************************************)
(* The Face++ credentials cache, checked under SpecFacepp.                 *)
(***************************************************************************)

\* The cached key, secret and FaceSet token were in the settings store
\* together at some moment.
CacheWasStored ==
    ~cachedCredentials.isNull =>
        [apiKey |-> cachedCredentials.apiKey, apiSecret |-> cachedCredentials.apiSecret,
         facesetToken |-> cachedCredentials.facesetToken] \in everStored

\* The first hasFaceSet called after createFaceSet returned success, when no
\* read of the store threw, returns true.
HasFaceSetAfterCreate ==
    \A i \in DOMAIN faceppCalls :
        (/\ faceppCalls[i].afterCreate
         /\ faceppCalls[i].pc = "done"
         /\ ~faceppCalls[i].threw) => faceppCalls[i].result

\* C37: the credentials cache never holds a combination of key, secret and
\* FaceSet token that the settings store did not hold at one moment, and the
\* hasFaceSet that follows a successful createFaceSet returns true.
C37_CacheNeverTorn ==
    CacheWasStored /\ HasFaceSetAfterCreate

(***************************************************************************)
(* The order of the two Gemini credentials, checked under SpecConfig, in   *)
(* which process.env.API_KEY is always available.                          *)
(***************************************************************************)

\* C38: the stored key is only a fallback: with the environment key available,
\* every client getClient builds uses the environment key.
C38_StoredKeyIsOnlyFallback ==
    \A i \in DOMAIN uses : uses[i].key = EnvKey

====
